---- MODULE Spec2Model ----
(***************************************************************************)
(* querypilot: the self-correction loop of backend/app/agents.             *)
(*                                                                         *)
(* A run of CorrectionAgent.execute_with_retry is the LangGraph workflow   *)
(*   schema_link -> generate_sql -> critic -> (execute) -> increment ...   *)
(* over one SQLCorrectionState.  The model keeps that state, the critic's  *)
(* four validation layers, auto_fix_columns, normalize_sql, the executor's *)
(* error classification and the two routing functions.                     *)
(*                                                                         *)
(* SQL text is a sequence of chunks.  A chunk is a maximal piece of text   *)
(* without white space (a word, a comment up to the end of its line) or a  *)
(* run of extra white space; two neighbouring chunks are separated by one  *)
(* blank.  Python's string functions are tables over the chunks.           *)
(***************************************************************************)
EXTENDS Integers, Sequences, FiniteSets, TLC

\* ------------------------------------------------------------------------
\* Bounds and program constants
\* ------------------------------------------------------------------------

\* largest max_attempts a CorrectionAgent is constructed with in the model
MaxMaxAttempts == 3

\* largest number of runs in a sequential series on one CorrectionAgent
MaxRuns == 3

\* number of threads that complete a run of one CorrectionAgent concurrently
MaxThreads == 2

\* the rows a query would produce without any limit: 0..MaxRows
MaxRows == 3

\* the calls of ExecutorAgent.execute made on one agent
MaxCalls == 3

\* CorrectionAgent.__init__: max_attempts: int = 3
DefaultMaxAttempts == 3

\* CriticAgent.__init__: confidence_threshold = 0.7, in tenths
DefaultThreshold == 7

\* critic.validate: the penalties and the start value, in tenths
StartConfidence == 10
SyntaxPenalty == 6
SchemaPenalty == 4
SemanticPenalty == 2

\* auto_fix_columns: get_close_matches cutoffs, in thousandths
QualifiedCutoff == 600
BareCutoff == 700

\* ------------------------------------------------------------------------
\* Text: chunks and Python's string functions on them
\* ------------------------------------------------------------------------

\* a run of extra white space (blanks, a line break)
Space == "  "

\* comments: a line comment runs to the end of its line, a block comment to */
LineComments == {"--drop\n"}
BlockComments == {"/*c*/"}
Comments == LineComments \cup BlockComments

\* str.lower() of a chunk
Lower(c) ==
    CASE c = "SELECT" -> "select"
      [] c = "FROM" -> "from"
      [] c = "DROP" -> "drop"
      [] c = "TABLE" -> "table"
      [] c = "NAME" -> "name"
      [] c = "NAM" -> "nam"
      [] c = "ID" -> "id"
      [] c = "PRICE" -> "price"
      [] c = "PRODUCT_ID" -> "product_id"
      [] c = "PRODUCTS" -> "products"
      [] c = "ORDERS" -> "orders"
      [] c = "UPDTED_AT" -> "updted_at"
      [] c = "UPDATED_AT" -> "updated_at"
      [] c = "PRODUCTS.NAM" -> "products.nam"
      [] c = "PRODUCTS.NAME" -> "products.name"
      [] c = "--DROP\n" -> "--drop\n"
      [] c = "/*C*/" -> "/*c*/"
      [] c = "WHERE" -> "where"
      [] c = "IN" -> "in"
      [] c = "COUNT(*)" -> "count(*)"
      [] c = "LIMIT" -> "limit"
      [] c = "AS" -> "as"
      [] c = "LAST_NAME" -> "last_name"
      [] c = "PRODUCT" -> "product"
      [] c = "ORDERS.CREAEDAT" -> "orders.creaedat"
      [] c = "ORDERS.CREATED_AT" -> "orders.created_at"
      [] c = "ORDERS.UPDATED_AT" -> "orders.updated_at"
      [] c = "P" -> "p"
      [] c = "NM" -> "nm"
      [] c = "P.NM" -> "p.nm"
      [] c = "PRODUCTS.NM" -> "products.nm"
      [] OTHER -> c

\* str.upper() of a chunk
Upper(c) ==
    CASE c \in {"select", "SELECT"} -> "SELECT"
      [] c \in {"from", "FROM"} -> "FROM"
      [] c \in {"drop", "DROP"} -> "DROP"
      [] c \in {"table", "TABLE"} -> "TABLE"
      [] c = "name" -> "NAME"
      [] c = "nam" -> "NAM"
      [] c = "id" -> "ID"
      [] c = "price" -> "PRICE"
      [] c = "product_id" -> "PRODUCT_ID"
      [] c = "products" -> "PRODUCTS"
      [] c = "orders" -> "ORDERS"
      [] c = "updted_at" -> "UPDTED_AT"
      [] c = "updated_at" -> "UPDATED_AT"
      [] c = "products.nam" -> "PRODUCTS.NAM"
      [] c = "products.name" -> "PRODUCTS.NAME"
      [] c = "--drop\n" -> "--DROP\n"
      [] c = "/*c*/" -> "/*C*/"
      [] c = "where" -> "WHERE"
      [] c = "in" -> "IN"
      [] c = "count(*)" -> "COUNT(*)"
      [] c = "limit" -> "LIMIT"
      [] c = "as" -> "AS"
      [] c = "last_name" -> "LAST_NAME"
      [] c = "product" -> "PRODUCT"
      [] c = "orders.creaedat" -> "ORDERS.CREAEDAT"
      [] c = "orders.created_at" -> "ORDERS.CREATED_AT"
      [] c = "orders.updated_at" -> "ORDERS.UPDATED_AT"
      [] c = "p" -> "P"
      [] c = "nm" -> "NM"
      [] c = "p.nm" -> "P.NM"
      [] c = "products.nm" -> "PRODUCTS.NM"
      [] OTHER -> c

\* a comment chunk, in either case
IsComment(c) == Lower(c) \in Comments

\* a qualified reference \w+\.\w+, its two parts, and the chunk t.col
IsQualified(c) ==
    Lower(c) \in {"products.nam", "products.name", "products.nm", "p.nm",
                  "orders.creaedat", "orders.created_at", "orders.updated_at"}
QualTable(c) ==
    CASE Lower(c) \in {"products.nam", "products.name", "products.nm"} ->
             IF c = Lower(c) THEN "products" ELSE "PRODUCTS"
      [] Lower(c) = "p.nm" -> IF c = Lower(c) THEN "p" ELSE "P"
      [] Lower(c) \in {"orders.creaedat", "orders.created_at", "orders.updated_at"} ->
             IF c = Lower(c) THEN "orders" ELSE "ORDERS"
      [] OTHER -> ""
QualColumn(c) ==
    CASE c = "products.nam" -> "nam"
      [] c = "products.name" -> "name"
      [] c = "PRODUCTS.NAM" -> "NAM"
      [] c = "PRODUCTS.NAME" -> "NAME"
      [] c = "orders.creaedat" -> "creaedat"
      [] c = "orders.created_at" -> "created_at"
      [] c = "orders.updated_at" -> "updated_at"
      [] c = "ORDERS.CREAEDAT" -> "CREAEDAT"
      [] c = "ORDERS.CREATED_AT" -> "CREATED_AT"
      [] c = "ORDERS.UPDATED_AT" -> "UPDATED_AT"
      [] c \in {"products.nm", "p.nm"} -> "nm"
      [] c \in {"PRODUCTS.NM", "P.NM"} -> "NM"
      [] OTHER -> ""
Qualify(t, col) ==
    CASE t = "products" /\ col = "nam" -> "products.nam"
      [] t = "products" /\ col = "name" -> "products.name"
      [] t = "PRODUCTS" /\ col = "NAM" -> "PRODUCTS.NAM"
      [] t = "PRODUCTS" /\ col = "NAME" -> "PRODUCTS.NAME"
      [] t = "PRODUCTS" /\ col = "name" -> "PRODUCTS.name"
      [] t = "orders" /\ col = "creaedat" -> "orders.creaedat"
      [] t = "orders" /\ col = "created_at" -> "orders.created_at"
      [] t = "orders" /\ col = "updated_at" -> "orders.updated_at"
      [] t = "products" /\ col = "nm" -> "products.nm"
      [] t = "p" /\ col = "nm" -> "p.nm"
      [] t = "p" /\ col = "name" -> "p.name"

\* the chunks that are one word, \w+
IsWord(c) ==
    /\ c # Space /\ ~IsComment(c) /\ ~IsQualified(c)
    /\ c \notin {",", "*", "(", ")", ";", "", "COUNT(*)", "count(*)"}

\* the word (\w+) a chunk starts with, "" when it starts with none
LeadingWord(c) ==
    IF IsWord(c) THEN c
    ELSE IF c = "COUNT(*)" THEN "COUNT"
    ELSE IF c = "count(*)" THEN "count"
    ELSE QualTable(c)

\* re.findall(r'\b(\w+)\b', chunk.lower()): the words inside a chunk
WordsIn(c) ==
    CASE c = Space -> << >>
      [] c \in {",", "*", "(", ")", ";"} -> << >>
      [] Lower(c) = "--drop\n" -> <<"drop">>
      [] Lower(c) = "/*c*/" -> <<"c">>
      [] Lower(c) = "count(*)" -> <<"count">>
      [] IsQualified(c) -> <<Lower(QualTable(c)), Lower(QualColumn(c))>>
      [] OTHER -> <<Lower(c)>>

\* `keyword in chunk` for an upper-cased chunk u: the UNSAFE_KEYWORDS that
\* occur in u as a substring (a keyword has no blank, so it lies in one chunk)
KeywordsWithin(u) ==
    CASE u \in {"DROP", "--DROP\n"} -> {"DROP"}
      [] u \in {"UPDATED_AT", "ORDERS.UPDATED_AT"} -> {"UPDATE"}
      [] u \in {"CREATED_AT", "ORDERS.CREATED_AT"} -> {"CREATE"}
      [] OTHER -> {}

SeqToSet(s) == {s[i] : i \in DOMAIN s}

RECURSIVE Flatten(_)
Flatten(ss) == IF ss = << >> THEN << >> ELSE Head(ss) \o Flatten(Tail(ss))

\* the text without its runs of white space: what \s+ and split() see
NoSpace(sql) == SelectSeq(sql, LAMBDA c : c # Space)

\* ------------------------------------------------------------------------
\* normalize_sql
\* ------------------------------------------------------------------------

\* re.sub(r'--.*$', '', sql, MULTILINE); re.sub(r'/\*.*?\*/', '', sql, DOTALL);
\* " ".join(sql.strip().lower().split())
normalize_sql(sql) ==
    LET uncommented == SelectSeq(sql, LAMBDA c : ~IsComment(c))
        words == NoSpace(uncommented)
    IN  [i \in DOMAIN words |-> Lower(words[i])]

\* ------------------------------------------------------------------------
\* Schema context: table name -> the sequence of its column names
\* ------------------------------------------------------------------------

SchemaProducts == [t \in {"products"} |-> <<"product_id", "name", "price", "updated_at">>]
SchemaOrders == [t \in {"orders"} |-> <<"order_id", "total">>]
EmptySchema == [t \in {} |-> << >>]
SchemaBoth ==
    [t \in {"products", "orders"} |->
        IF t = "products" THEN SchemaProducts[t] ELSE SchemaOrders[t]]

\* a schema context whose two tables have columns that resemble each other
SchemaAudit ==
    [t \in {"products", "orders"} |->
        IF t = "products" THEN <<"product_id", "created_at">>
        ELSE <<"order_id", "updated_at">>]

\* a schema context with a quoted column name that reads "does not exist"
SchemaQuoted == [t \in {"products"} |-> <<"name", "does not exist">>]

\* the schema contexts CriticAgent.validate is applied to
CriticSchemas == {SchemaProducts, SchemaOrders, EmptySchema, SchemaBoth}

\* what SchemaLinker.link_schema may answer
Schemas == {SchemaProducts, SchemaOrders}

\* a set as a sequence, in the iteration order of a Python set or dict
RECURSIVE SetToSeq(_)
SetToSeq(S) ==
    IF S = {} THEN << >>
    ELSE LET x == CHOOSE y \in S : TRUE IN <<x>> \o SetToSeq(S \ {x})

\* ------------------------------------------------------------------------
\* CriticAgent
\* ------------------------------------------------------------------------

UNSAFE_KEYWORDS ==
    <<"DROP", "DELETE", "ALTER", "TRUNCATE", "UPDATE", "INSERT", "CREATE", "REPLACE">>

\* the skip_keywords of _extract_column_references that occur in an
\* upper-cased chunk u as a substring
SkipKeywordWithin(u) == u \in {"*", "/*C*/", "AS", "DISTINCT", "COUNT(*)", "LAST_NAME"}

\* the AGGREGATION_FUNCS that occur in an upper-cased chunk u as a substring
AggregationWithin(u) == IF u = "COUNT(*)" THEN {"COUNT("} ELSE {}

\* the one element of a singleton set
TheOnly(S) == CHOOSE x \in S : TRUE

\* sql.upper(), chunk by chunk
UpperText(sql) == [i \in DOMAIN sql |-> Upper(sql[i])]

\* FROM\s+(\w+), JOIN\s+(\w+) over sql.upper(), lower-cased again; the CTE
\* names of WITH\s+(\w+)\s+AS
_extract_table_names(sql) ==
    UNION {{Lower(LeadingWord(u[i + 1])) : i \in {j \in 1..(Len(u) - 1) :
                    u[j] \in {"FROM", "JOIN"} /\ LeadingWord(u[j + 1]) # ""}}
           \cup {Lower(u[i + 1]) : i \in {j \in 1..(Len(u) - 2) :
                    u[j] = "WITH" /\ IsWord(u[j + 1]) /\ u[j + 2] = "AS"}}
           : u \in {NoSpace(UpperText(sql))}}

\* (?:FROM|JOIN)\s+(\w+)\s+(?:AS\s+)?(\w+): the pairs <<table, alias>> that
\* differ
AliasMap(sql) ==
    UNION {{p \in {<<Lower(w[i + 1]),
                     IF Upper(w[i + 2]) = "AS" /\ i + 3 <= Len(w) /\ IsWord(w[i + 3])
                     THEN Lower(w[i + 3]) ELSE Lower(w[i + 2])>> :
                   i \in {j \in 1..(Len(w) - 2) :
                           /\ Upper(w[j]) \in {"FROM", "JOIN"}
                           /\ IsWord(w[j + 1]) /\ IsWord(w[j + 2])}} : p[1] # p[2]}
           : w \in {NoSpace(sql)}}

\* re.search(r'SELECT\s+(.*?)\s+FROM', sql, IGNORECASE): the select list
\* between the first SELECT and the first FROM after it; no element when the
\* pattern does not match
SelectList(sql) ==
    UNION {{SubSeq(w, p[1] + 1, p[2] - 1) :
              p \in {q \in (DOMAIN w) \X (DOMAIN w) :
                       /\ Upper(w[q[1]]) = "SELECT"
                       /\ \A j \in 1..(q[1] - 1) : Upper(w[j]) # "SELECT"
                       /\ q[2] > q[1] + 1
                       /\ Upper(w[q[2]]) = "FROM"
                       /\ \A j \in (q[1] + 2)..(q[2] - 1) : Upper(w[j]) # "FROM"}}
           : w \in {NoSpace(sql)}}

\* select_clause.split(',')
RECURSIVE SplitAtCommas(_)
SplitAtCommas(cs) ==
    IF \A i \in DOMAIN cs : cs[i] # "," THEN <<cs>>
    ELSE TheOnly({<<SubSeq(cs, 1, k - 1)>> \o SplitAtCommas(SubSeq(cs, k + 1, Len(cs))) :
                    k \in {i \in DOMAIN cs : cs[i] = "," /\ \A j \in 1..(i - 1) : cs[j] # ","}})

\* the bare columns of the items of a select list; an empty item raises inside
\* the try block, which ends the loop
BareColumns(items) ==
    {Lower(items[i][1]) : i \in {j \in DOMAIN items :
        /\ \A k \in 1..j : items[k] # << >>
        /\ \A k \in DOMAIN items[j] : /\ ~SkipKeywordWithin(Upper(items[j][k]))
                                      /\ ~IsQualified(items[j][k])}}

\* the pairs <<table, column>> referenced: pattern 1, the qualified
\* references (\w+)\.(\w+); pattern 2, the bare columns of the select list of
\* a single-table query; aliases resolved.  (No text of the model holds a
\* function call, so the function-argument pattern finds nothing.)
_extract_column_references(sql) ==
    UNION {{<<IF \E p \in aliases : p[2] = r[1]
              THEN (CHOOSE p \in aliases : p[2] = r[1])[1] ELSE r[1], r[2]>> :
              r \in {<<Lower(QualTable(sql[i])), Lower(QualColumn(sql[i]))>> :
                        i \in {j \in DOMAIN sql : IsQualified(sql[j])}}
                    \cup (IF Cardinality(from_tables) = 1
                          THEN {<<t, c>> : t \in from_tables,
                                  c \in UNION {BareColumns(SplitAtCommas(l)) : l \in SelectList(sql)}}
                          ELSE {})}
           : from_tables \in {_extract_table_names(sql)}, aliases \in {AliasMap(sql)}}

\* Layer 1
_validate_syntax(sql) ==
    IF \A i \in DOMAIN sql : sql[i] = Space THEN <<<<"Empty SQL query">>>>
    ELSE IF \E i \in DOMAIN sql :
                /\ \A j \in 1..(i - 1) : sql[j] = Space
                /\ sql[i] # Space
                /\ Upper(sql[i]) \notin {"SELECT", "WITH"}
         THEN <<<<"SQL must start with SELECT or WITH">>>>
    ELSE IF Cardinality({i \in DOMAIN sql : sql[i] = "("})
                # Cardinality({i \in DOMAIN sql : sql[i] = ")"})
         THEN <<<<"Unmatched parentheses">>>>
    ELSE << >>

\* list(schema_columns)[:5]: at most five of the table's columns
AvailableColumns(columns) == SubSeq(columns, 1, IF Len(columns) <= 5 THEN Len(columns) ELSE 5)

\* Layer 2
_validate_schema(sql, filtered_schema) ==
    IF DOMAIN filtered_schema = {} THEN <<<<"No schema provided for validation">>>>
    ELSE TheOnly({[i \in DOMAIN missing |->
                      <<"Table '", missing[i], "' not in schema (available: ">>
                      \o SetToSeq(DOMAIN filtered_schema) \o <<")">>] :
                    missing \in {SetToSeq(_extract_table_names(sql) \ DOMAIN filtered_schema)}})
         \o TheOnly({[i \in DOMAIN refs |->
                      <<"Column '", refs[i][2], "' not in table '", refs[i][1],
                        "' (available: ">>
                      \o AvailableColumns(filtered_schema[refs[i][1]]) \o <<"...)">>] :
                    refs \in {SetToSeq({r \in _extract_column_references(sql) :
                                 /\ r[1] \in DOMAIN filtered_schema
                                 /\ r[2] \notin SeqToSet(filtered_schema[r[1]])
                                 /\ r[2] # "*"})}})

\* _validate_safety searching sql instead of sql.upper(): a lower-case keyword
\* escapes it
_validate_safety_case_sensitive(sql) ==
    TheOnly({[i \in DOMAIN hits |-> <<"Unsafe operation detected: ", hits[i]>>] :
               hits \in {SelectSeq(UNSAFE_KEYWORDS,
                            LAMBDA k : \E i \in DOMAIN sql : k \in KeywordsWithin(sql[i]))}})

\* Layer 3: `keyword in sql.upper()` for each keyword, in the list's order
_validate_safety(sql) ==
    TheOnly({[i \in DOMAIN hits |-> <<"Unsafe operation detected: ", hits[i]>>] :
               hits \in {SelectSeq(UNSAFE_KEYWORDS,
                            LAMBDA k : \E i \in DOMAIN sql : k \in KeywordsWithin(Upper(sql[i])))}})

\* Layer 4: several tables and no JOIN; an aggregation call, no GROUP BY and
\* a comma in sql_upper.split('FROM')[0]
_validate_semantics(sql) ==
    TheOnly({(IF /\ Cardinality(_extract_table_names(sql)) > 1
                 /\ \A i \in DOMAIN u : u[i] # "JOIN"
              THEN <<<<"Multiple tables detected but no JOIN found (possible cartesian product)">>>>
              ELSE << >>)
             \o (IF /\ \E i \in DOMAIN u : AggregationWithin(u[i]) # {}
                    /\ ~\E i \in 1..(Len(u) - 1) : u[i] = "GROUP" /\ u[i + 1] = "BY"
                    /\ \E i \in DOMAIN u : /\ u[i] = ","
                                            /\ \A j \in 1..(i - 1) : u[j] # "FROM"
                 THEN <<<<"Aggregation with multiple columns but no GROUP BY">>>>
                 ELSE << >>) :
               u \in {NoSpace(UpperText(sql))}})

Max(a, b) == IF a >= b THEN a ELSE b
Min(a, b) == IF a <= b THEN a ELSE b

\* the confidence without the clamp to [0, 1]
Confidence_without_clamp(syntax, schema, safety, semantic) ==
    LET c1 == IF syntax # << >> THEN StartConfidence - SyntaxPenalty ELSE StartConfidence
        c2 == c1 - SchemaPenalty * Len(schema)
        c3 == IF safety # << >> THEN 0 ELSE c2
    IN  c3 - SemanticPenalty * Len(semantic)

\* the confidence with the schema and semantic penalties taken once for a
\* failed layer, not once for each issue
Confidence_penalty_per_layer(syntax, schema, safety, semantic) ==
    LET c1 == IF syntax # << >> THEN StartConfidence - SyntaxPenalty ELSE StartConfidence
        c2 == IF schema # << >> THEN c1 - SchemaPenalty ELSE c1
        c3 == IF safety # << >> THEN 0 ELSE c2
        c4 == IF semantic # << >> THEN c3 - SemanticPenalty ELSE c3
    IN  Max(0, Min(c4, StartConfidence))

\* the confidence with a safety issue counted as one more penalty, not as
\* the hard override to 0
Confidence_safety_as_penalty(syntax, schema, safety, semantic) ==
    LET c1 == IF syntax # << >> THEN StartConfidence - SyntaxPenalty ELSE StartConfidence
        c2 == c1 - SchemaPenalty * Len(schema)
        c3 == IF safety # << >> THEN c2 - SemanticPenalty ELSE c2
        c4 == c3 - SemanticPenalty * Len(semantic)
    IN  Max(0, Min(c4, StartConfidence))

\* validate: the confidence the four layers' issues leave, in tenths
Confidence(syntax, schema, safety, semantic) ==
    LET c1 == IF syntax # << >> THEN StartConfidence - SyntaxPenalty ELSE StartConfidence
        c2 == c1 - SchemaPenalty * Len(schema)
        c3 == IF safety # << >> THEN 0 ELSE c2
        c4 == c3 - SemanticPenalty * Len(semantic)
    IN  Max(0, Min(c4, StartConfidence))

\* the ValidationResult without the `confidence > 0.0` conjunct: validity by
\* the threshold alone
Verdict_by_threshold_alone(confidence, issues, threshold) ==
    [confidence |-> confidence, is_valid |-> confidence >= threshold, issues |-> issues]

\* validate: the ValidationResult for a confidence and the issues found
Verdict(confidence, issues, threshold) ==
    [confidence |-> confidence,
     is_valid |-> (confidence >= threshold) /\ (confidence > 0),
     issues |-> issues]

\* CriticAgent.validate
validate(generated_sql, filtered_schema, threshold) ==
    TheOnly({Verdict(Confidence(l[1], l[2], l[3], l[4]), l[1] \o l[2] \o l[3] \o l[4], threshold) :
               l \in {<<_validate_syntax(generated_sql),
                        _validate_schema(generated_sql, filtered_schema),
                        _validate_safety(generated_sql),
                        _validate_semantics(generated_sql)>>}})

\* ------------------------------------------------------------------------
\* auto_fix_columns
\* ------------------------------------------------------------------------

\* difflib.SequenceMatcher(None, x, word).ratio() in thousandths, for the
\* words of the texts and the columns of the schemas
Ratio(word, x) ==
    CASE word = "select" /\ x = "product_id" -> 250
      [] word = "select" /\ x = "name" -> 200
      [] word = "select" /\ x = "price" -> 181
      [] word = "select" /\ x = "updated_at" -> 125
      [] word = "select" /\ x = "order_id" -> 142
      [] word = "select" /\ x = "total" -> 181
      [] word = "select" /\ x = "created_at" -> 250
      [] word = "select" /\ x = "does not exist" -> 200
      [] word = "from" /\ x = "product_id" -> 285
      [] word = "from" /\ x = "name" -> 250
      [] word = "from" /\ x = "price" -> 222
      [] word = "from" /\ x = "order_id" -> 166
      [] word = "from" /\ x = "total" -> 222
      [] word = "from" /\ x = "created_at" -> 142
      [] word = "from" /\ x = "does not exist" -> 111
      [] word = "name" /\ x = "name" -> 1000
      [] word = "name" /\ x = "price" -> 222
      [] word = "name" /\ x = "updated_at" -> 285
      [] word = "name" /\ x = "order_id" -> 166
      [] word = "name" /\ x = "total" -> 222
      [] word = "name" /\ x = "created_at" -> 142
      [] word = "name" /\ x = "does not exist" -> 111
      [] word = "nam" /\ x = "name" -> 857
      [] word = "nam" /\ x = "updated_at" -> 153
      [] word = "nam" /\ x = "total" -> 250
      [] word = "nam" /\ x = "created_at" -> 153
      [] word = "nam" /\ x = "does not exist" -> 117
      [] word = "id" /\ x = "product_id" -> 333
      [] word = "id" /\ x = "price" -> 285
      [] word = "id" /\ x = "updated_at" -> 166
      [] word = "id" /\ x = "order_id" -> 400
      [] word = "id" /\ x = "created_at" -> 166
      [] word = "id" /\ x = "does not exist" -> 125
      [] word = "products" /\ x = "product_id" -> 777
      [] word = "products" /\ x = "price" -> 461
      [] word = "products" /\ x = "updated_at" -> 222
      [] word = "products" /\ x = "order_id" -> 250
      [] word = "products" /\ x = "total" -> 153
      [] word = "products" /\ x = "created_at" -> 222
      [] word = "products" /\ x = "does not exist" -> 181
      [] word = "updted_at" /\ x = "product_id" -> 421
      [] word = "updted_at" /\ x = "name" -> 153
      [] word = "updted_at" /\ x = "price" -> 285
      [] word = "updted_at" /\ x = "updated_at" -> 947
      [] word = "updted_at" /\ x = "order_id" -> 352
      [] word = "updted_at" /\ x = "total" -> 285
      [] word = "updted_at" /\ x = "created_at" -> 631
      [] word = "updted_at" /\ x = "does not exist" -> 260
      [] word = "updated_at" /\ x = "product_id" -> 400
      [] word = "updated_at" /\ x = "name" -> 285
      [] word = "updated_at" /\ x = "price" -> 266
      [] word = "updated_at" /\ x = "updated_at" -> 1000
      [] word = "updated_at" /\ x = "order_id" -> 333
      [] word = "updated_at" /\ x = "total" -> 266
      [] word = "updated_at" /\ x = "created_at" -> 700
      [] word = "updated_at" /\ x = "does not exist" -> 250
      [] word = "drop" /\ x = "product_id" -> 285
      [] word = "drop" /\ x = "price" -> 222
      [] word = "drop" /\ x = "updated_at" -> 142
      [] word = "drop" /\ x = "order_id" -> 166
      [] word = "drop" /\ x = "total" -> 222
      [] word = "drop" /\ x = "created_at" -> 142
      [] word = "drop" /\ x = "does not exist" -> 222
      [] word = "table" /\ x = "product_id" -> 133
      [] word = "table" /\ x = "name" -> 444
      [] word = "table" /\ x = "price" -> 200
      [] word = "table" /\ x = "updated_at" -> 266
      [] word = "table" /\ x = "order_id" -> 153
      [] word = "table" /\ x = "total" -> 600
      [] word = "table" /\ x = "created_at" -> 133
      [] word = "table" /\ x = "does not exist" -> 105
      [] word = "c" /\ x = "product_id" -> 181
      [] word = "c" /\ x = "price" -> 333
      [] word = "c" /\ x = "created_at" -> 181
      [] word = "orders" /\ x = "product_id" -> 250
      [] word = "orders" /\ x = "name" -> 200
      [] word = "orders" /\ x = "price" -> 363
      [] word = "orders" /\ x = "updated_at" -> 250
      [] word = "orders" /\ x = "order_id" -> 714
      [] word = "orders" /\ x = "total" -> 181
      [] word = "orders" /\ x = "created_at" -> 250
      [] word = "orders" /\ x = "does not exist" -> 300
      [] word = "price" /\ x = "product_id" -> 400
      [] word = "price" /\ x = "name" -> 222
      [] word = "price" /\ x = "price" -> 1000
      [] word = "price" /\ x = "updated_at" -> 266
      [] word = "price" /\ x = "order_id" -> 307
      [] word = "price" /\ x = "created_at" -> 266
      [] word = "price" /\ x = "does not exist" -> 105
      [] word = "product_id" /\ x = "product_id" -> 1000
      [] word = "product_id" /\ x = "price" -> 400
      [] word = "product_id" /\ x = "updated_at" -> 200
      [] word = "product_id" /\ x = "order_id" -> 555
      [] word = "product_id" /\ x = "total" -> 133
      [] word = "product_id" /\ x = "created_at" -> 300
      [] word = "product_id" /\ x = "does not exist" -> 250
      [] word = "order_id" /\ x = "product_id" -> 555
      [] word = "order_id" /\ x = "name" -> 166
      [] word = "order_id" /\ x = "price" -> 307
      [] word = "order_id" /\ x = "updated_at" -> 333
      [] word = "order_id" /\ x = "order_id" -> 1000
      [] word = "order_id" /\ x = "total" -> 153
      [] word = "order_id" /\ x = "created_at" -> 333
      [] word = "order_id" /\ x = "does not exist" -> 272
      [] word = "total" /\ x = "product_id" -> 266
      [] word = "total" /\ x = "name" -> 222
      [] word = "total" /\ x = "updated_at" -> 133
      [] word = "total" /\ x = "order_id" -> 153
      [] word = "total" /\ x = "total" -> 1000
      [] word = "total" /\ x = "created_at" -> 133
      [] word = "total" /\ x = "does not exist" -> 210
      [] word = "where" /\ x = "product_id" -> 133
      [] word = "where" /\ x = "name" -> 222
      [] word = "where" /\ x = "price" -> 400
      [] word = "where" /\ x = "updated_at" -> 133
      [] word = "where" /\ x = "order_id" -> 307
      [] word = "where" /\ x = "created_at" -> 266
      [] word = "where" /\ x = "does not exist" -> 210
      [] word = "in" /\ x = "product_id" -> 166
      [] word = "in" /\ x = "name" -> 333
      [] word = "in" /\ x = "price" -> 285
      [] word = "in" /\ x = "order_id" -> 200
      [] word = "in" /\ x = "does not exist" -> 125
      [] word = "count" /\ x = "product_id" -> 400
      [] word = "count" /\ x = "name" -> 222
      [] word = "count" /\ x = "price" -> 200
      [] word = "count" /\ x = "updated_at" -> 266
      [] word = "count" /\ x = "order_id" -> 153
      [] word = "count" /\ x = "total" -> 200
      [] word = "count" /\ x = "created_at" -> 266
      [] word = "count" /\ x = "does not exist" -> 315
      [] word = "limit" /\ x = "product_id" -> 133
      [] word = "limit" /\ x = "name" -> 222
      [] word = "limit" /\ x = "price" -> 200
      [] word = "limit" /\ x = "updated_at" -> 133
      [] word = "limit" /\ x = "order_id" -> 153
      [] word = "limit" /\ x = "total" -> 200
      [] word = "limit" /\ x = "created_at" -> 133
      [] word = "limit" /\ x = "does not exist" -> 105
      [] word = "as" /\ x = "name" -> 333
      [] word = "as" /\ x = "updated_at" -> 166
      [] word = "as" /\ x = "total" -> 285
      [] word = "as" /\ x = "created_at" -> 166
      [] word = "as" /\ x = "does not exist" -> 125
      [] word = "product" /\ x = "product_id" -> 823
      [] word = "product" /\ x = "price" -> 500
      [] word = "product" /\ x = "updated_at" -> 235
      [] word = "product" /\ x = "order_id" -> 266
      [] word = "product" /\ x = "total" -> 166
      [] word = "product" /\ x = "created_at" -> 235
      [] word = "product" /\ x = "does not exist" -> 190
      [] word = "creaedat" /\ x = "product_id" -> 333
      [] word = "creaedat" /\ x = "name" -> 333
      [] word = "creaedat" /\ x = "price" -> 307
      [] word = "creaedat" /\ x = "updated_at" -> 333
      [] word = "creaedat" /\ x = "order_id" -> 250
      [] word = "creaedat" /\ x = "total" -> 153
      [] word = "creaedat" /\ x = "created_at" -> 888
      [] word = "creaedat" /\ x = "does not exist" -> 181
      [] word = "created_at" /\ x = "product_id" -> 300
      [] word = "created_at" /\ x = "name" -> 285
      [] word = "created_at" /\ x = "price" -> 266
      [] word = "created_at" /\ x = "updated_at" -> 700
      [] word = "created_at" /\ x = "order_id" -> 333
      [] word = "created_at" /\ x = "total" -> 266
      [] word = "created_at" /\ x = "created_at" -> 1000
      [] word = "created_at" /\ x = "does not exist" -> 166
      [] word = "last_name" /\ x = "product_id" -> 210
      [] word = "last_name" /\ x = "name" -> 615
      [] word = "last_name" /\ x = "price" -> 142
      [] word = "last_name" /\ x = "updated_at" -> 315
      [] word = "last_name" /\ x = "order_id" -> 117
      [] word = "last_name" /\ x = "total" -> 285
      [] word = "last_name" /\ x = "created_at" -> 105
      [] word = "last_name" /\ x = "does not exist" -> 173
      [] word = "p" /\ x = "product_id" -> 181
      [] word = "p" /\ x = "price" -> 333
      [] word = "p" /\ x = "updated_at" -> 181
      [] word = "nm" /\ x = "name" -> 666
      [] word = "nm" /\ x = "does not exist" -> 125
      [] OTHER -> 0

\* get_close_matches(word, possibilities, n=1, cutoff): the best match at or
\* above the cutoff, "" when there is none
get_close_match(word, possibilities, cutoff) ==
    TheOnly({IF ok = {} THEN ""
             ELSE (CHOOSE p \in ok : \A q \in ok : q[2] <= p[2])[1] :
               ok \in {{p \in {<<x, Ratio(word, x)>> : x \in SeqToSet(possibilities)} :
                          p[2] >= cutoff}}})

sql_keywords ==
    {"select", "from", "where", "and", "or", "order", "by", "limit", "group",
     "having", "join", "on", "as", "with", "case", "when", "then", "else", "end",
     "distinct", "count", "sum", "avg", "max", "min"}

\* column_map.values(), flattened: every column of every table, lower case
AllColumns(schema) == Flatten([i \in 1..Cardinality(DOMAIN schema) |->
                                  schema[SetToSeq(DOMAIN schema)[i]]])

\* re.sub(rf'\b{table}\.{column}\b', f"{table}.{correct}", sql, IGNORECASE)
FixQualified(sql, table, column, correct) ==
    [i \in DOMAIN sql |->
        IF IsQualified(sql[i]) /\ Lower(sql[i]) = Lower(Qualify(table, column))
        THEN Qualify(table, correct) ELSE sql[i]]

\* one step of the first pass: a qualified reference table.column whose
\* table is in the schema and whose column is not is replaced by its close
\* match, if any
FixReference(sql, ref, schema) ==
    IF /\ Lower(QualTable(ref)) \in DOMAIN schema
       /\ Lower(QualColumn(ref)) \notin SeqToSet(schema[Lower(QualTable(ref))])
    THEN TheOnly({IF correct # ""
                  THEN FixQualified(sql, QualTable(ref), QualColumn(ref), correct) ELSE sql :
                    correct \in {get_close_match(Lower(QualColumn(ref)),
                                    schema[Lower(QualTable(ref))], QualifiedCutoff)}})
    ELSE sql

\* the first pass: every qualified reference, in the text's order
RECURSIVE QualifiedPass(_, _, _)
QualifiedPass(sql, matches, schema) ==
    IF matches = << >> THEN sql
    ELSE QualifiedPass(FixReference(sql, Head(matches), schema), Tail(matches), schema)

\* re.sub(rf'\b{word}\b', match, sql, IGNORECASE, count=1)
ReplaceFirst(sql, word, match) ==
    LET at == {i \in DOMAIN sql : word \in SeqToSet(WordsIn(sql[i]))}
    IN  IF at = {} THEN sql
        ELSE LET k == CHOOSE i \in at : \A j \in at : i <= j
             IN  [sql EXCEPT ![k] =
                     IF IsWord(@) THEN match
                     ELSE IF IsQualified(@) /\ Lower(QualColumn(@)) = word
                          THEN Qualify(QualTable(@), match)
                     ELSE @]

\* one step of the second pass: a word that is no keyword, no table and no
\* column is replaced by its close match among all columns, if any
FixWord(sql, word, columns, schema) ==
    IF word \in sql_keywords \/ word \in DOMAIN schema \/ word \in SeqToSet(columns)
    THEN sql
    ELSE TheOnly({IF match # "" THEN ReplaceFirst(sql, word, match) ELSE sql :
                    match \in {get_close_match(word, columns, BareCutoff)}})

\* the second pass: every word of the lower-cased text, in order
RECURSIVE BarePass(_, _, _)
BarePass(sql, words, schema) ==
    IF words = << >> THEN sql
    ELSE BarePass(FixWord(sql, Head(words), AllColumns(schema), schema), Tail(words), schema)

auto_fix_columns(sql, schema) ==
    TheOnly({BarePass(fixed, Flatten([i \in DOMAIN fixed |-> WordsIn(fixed[i])]), schema) :
               fixed \in {QualifiedPass(sql, SelectSeq(sql, IsQualified), schema)}})

\* ------------------------------------------------------------------------
\* The texts the generation service may return
\* ------------------------------------------------------------------------

SqlName == <<"SELECT", "name", "FROM", "products">>
SqlNameLower == <<"select", Space, "name", "from", "products">>
SqlNameComment == <<"SELECT", "name", "FROM", "products", "--drop\n">>
SqlId == <<"SELECT", "id", "FROM", "products">>
SqlNam == <<"SELECT", "nam", "FROM", "products">>
SqlUpdted == <<"SELECT", "updted_at", "FROM", "products">>
SqlDrop == <<"DROP", "TABLE", "products">>
SqlQualified == <<"SELECT", "products.nam", "FROM", "products">>
SqlIdLimit == <<"SELECT", "id", "FROM", "products", "LIMIT", "100">>
SqlAlias == <<"SELECT", "name", "AS", "product", "FROM", "products">>
SqlQualifiedTypo == <<"SELECT", "orders.creaedat", "FROM", "orders">>
SqlQualifiedNm == <<"SELECT", "products.nm", "FROM", "products">>
SqlAliasNm == <<"SELECT", "p.nm", "FROM", "products", "p">>
SqlNamTwice == <<"SELECT", "nam", "FROM", "products", "WHERE", "nam">>

SqlTexts == {SqlName, SqlNameLower, SqlNameComment, SqlIdLimit, SqlNam, SqlUpdted, SqlDrop}

\* texts with several issues in one layer
SqlThreeUnknown == <<"SELECT", "id", ",", "nam", ",", "updted_at", "FROM", "products">>
SqlTwoUnknown == <<"SELECT", "id", ",", "nam", "FROM", "products">>
SqlSubquery ==
    <<"SELECT", "name", "FROM", "products", "WHERE", "product_id", "IN", "(",
      "SELECT", "product_id", "FROM", "orders", ")">>
SqlUnsafeSubquery ==
    <<"SELECT", "updated_at", "FROM", "products", "WHERE", "product_id", "IN", "(",
      "SELECT", "product_id", "FROM", "orders", ")">>
SqlCountSubquery ==
    <<"SELECT", "name", ",", "COUNT(*)", "FROM", "products", "WHERE", "product_id", "IN", "(",
      "SELECT", "product_id", "FROM", "orders", ")">>
SqlCount == <<"SELECT", "name", ",", "COUNT(*)", "FROM", "products">>
SqlCartesian == <<"SELECT", "*", "FROM", "products", ",", "orders">>
SqlLastName == <<"SELECT", "last_name", "FROM", "products">>

\* the texts CriticAgent.validate is applied to
CriticTexts ==
    SqlTexts \cup {SqlThreeUnknown, SqlTwoUnknown, SqlSubquery, SqlUnsafeSubquery,
                   SqlCountSubquery, SqlCount, SqlCartesian, SqlLastName, SqlId, << >>}

\* ------------------------------------------------------------------------
\* ErrorClassifier and ExecutorAgent
\* ------------------------------------------------------------------------

\* what the database answers to one statement: "ok" or an error message
ProviderErrors ==
    {"canceling statement due to statement timeout",
     "connection refused",
     "permission denied for table products",
     "syntax error: column \"id\" does not exist",
     "division by zero"}
DbOutcomes == {"ok"} \cup ProviderErrors

\* the messages the classifier is applied to, lower-cased
ClassifierMessages ==
    {"canceling statement due to statement timeout",
     "connection refused",
     "permission denied for table products",
     "syntax error: column \"id\" does not exist",
     "division by zero",
     "connection timed out: statement timeout",
     "permission denied: relation \"orders\" does not exist",
     "column \"total\" of relation \"orders\" does not exist",
     "column \"price\" must appear in the group by clause",
     "column reference \"id\" is ambiguous",
     "operator does not exist: integer = text",
     "syntax error: operator does not exist",
     "syntax error at or near \"exist\"\nline 1: select name from products where does not exist",
     "syntax error at or near \"from\"",
     "relation \"customers\" does not exist",
     "column \"id\" does not exist\nline 1: select id from products",
     "column \"price\" must appear in the group by clause: column reference \"price\" is ambiguous",
     "missing from-clause entry for table \"orders\": invalid input syntax for type integer",
     "invalid input syntax for type integer: \"abc\"",
     "syntax error: function total() does not exist",
     "permission denied: syntax error: column \"id\" does not exist",
     "syntax error: relation \"customers\" does not exist"}

\* a lower-cased message as its words, blanks, line ends and punctuation marks
WordsOf(error_msg) ==
    CASE error_msg = "canceling statement due to statement timeout" ->
            <<"canceling", " ", "statement", " ", "due", " ", "to", " ", "statement",
                " ", "timeout">>
      [] error_msg = "connection refused" ->
            <<"connection", " ", "refused">>
      [] error_msg = "permission denied for table products" ->
            <<"permission", " ", "denied", " ", "for", " ", "table", " ", "products">>
      [] error_msg = "syntax error: column \"id\" does not exist" ->
            <<"syntax", " ", "error", ":", " ", "column", " ", "\"", "id", "\"", " ",
                "does", " ", "not", " ", "exist">>
      [] error_msg = "division by zero" ->
            <<"division", " ", "by", " ", "zero">>
      [] error_msg = "connection timed out: statement timeout" ->
            <<"connection", " ", "timed", " ", "out", ":", " ", "statement", " ",
                "timeout">>
      [] error_msg = "permission denied: relation \"orders\" does not exist" ->
            <<"permission", " ", "denied", ":", " ", "relation", " ", "\"", "orders",
                "\"", " ", "does", " ", "not", " ", "exist">>
      [] error_msg = "column \"total\" of relation \"orders\" does not exist" ->
            <<"column", " ", "\"", "total", "\"", " ", "of", " ", "relation", " ",
                "\"", "orders", "\"", " ", "does", " ", "not", " ", "exist">>
      [] error_msg = "column \"price\" must appear in the group by clause" ->
            <<"column", " ", "\"", "price", "\"", " ", "must", " ", "appear", " ",
                "in", " ", "the", " ", "group", " ", "by", " ", "clause">>
      [] error_msg = "column reference \"id\" is ambiguous" ->
            <<"column", " ", "reference", " ", "\"", "id", "\"", " ", "is", " ",
                "ambiguous">>
      [] error_msg = "operator does not exist: integer = text" ->
            <<"operator", " ", "does", " ", "not", " ", "exist", ":", " ", "integer",
                " ", "=", " ", "text">>
      [] error_msg = "syntax error: operator does not exist" ->
            <<"syntax", " ", "error", ":", " ", "operator", " ", "does", " ", "not",
                " ", "exist">>
      [] error_msg = "syntax error at or near \"exist\"\nline 1: select name from products where does not exist" ->
            <<"syntax", " ", "error", " ", "at", " ", "or", " ", "near", " ", "\"",
                "exist", "\"", "\n", "line", " ", "1", ":", " ", "select", " ", "name",
                " ", "from", " ", "products", " ", "where", " ", "does", " ", "not",
                " ", "exist">>
      [] error_msg = "syntax error at or near \"from\"" ->
            <<"syntax", " ", "error", " ", "at", " ", "or", " ", "near", " ", "\"",
                "from", "\"">>
      [] error_msg = "relation \"customers\" does not exist" ->
            <<"relation", " ", "\"", "customers", "\"", " ", "does", " ", "not", " ",
                "exist">>
      [] error_msg = "column \"id\" does not exist\nline 1: select id from products" ->
            <<"column", " ", "\"", "id", "\"", " ", "does", " ", "not", " ", "exist",
                "\n", "line", " ", "1", ":", " ", "select", " ", "id", " ", "from",
                " ", "products">>
      [] error_msg = "column \"price\" must appear in the group by clause: column reference \"price\" is ambiguous" ->
            <<"column", " ", "\"", "price", "\"", " ", "must", " ", "appear", " ",
                "in", " ", "the", " ", "group", " ", "by", " ", "clause", ":", " ",
                "column", " ", "reference", " ", "\"", "price", "\"", " ", "is", " ",
                "ambiguous">>
      [] error_msg = "missing from-clause entry for table \"orders\": invalid input syntax for type integer" ->
            <<"missing", " ", "from", "-", "clause", " ", "entry", " ", "for", " ",
                "table", " ", "\"", "orders", "\"", ":", " ", "invalid", " ", "input",
                " ", "syntax", " ", "for", " ", "type", " ", "integer">>
      [] error_msg = "invalid input syntax for type integer: \"abc\"" ->
            <<"invalid", " ", "input", " ", "syntax", " ", "for", " ", "type", " ",
                "integer", ":", " ", "\"", "abc", "\"">>
      [] error_msg = "syntax error: function total() does not exist" ->
            <<"syntax", " ", "error", ":", " ", "function", " ", "total", "(", ")",
                " ", "does", " ", "not", " ", "exist">>
      [] error_msg = "permission denied: syntax error: column \"id\" does not exist" ->
            <<"permission", " ", "denied", ":", " ", "syntax", " ", "error", ":", " ",
                "column", " ", "\"", "id", "\"", " ", "does", " ", "not", " ", "exist">>
      [] error_msg = "syntax error: relation \"customers\" does not exist" ->
            <<"syntax", " ", "error", ":", " ", "relation", " ", "\"", "customers",
                "\"", " ", "does", " ", "not", " ", "exist">>
      [] OTHER -> << >>

\* a pattern of the classifier as its words, ".*" standing for any text of one line
PatternWords(pattern) ==
    CASE pattern = "canceling statement due to statement timeout" ->
            <<"canceling", " ", "statement", " ", "due", " ", "to", " ", "statement",
                " ", "timeout">>
      [] pattern = "query_timeout" ->
            <<"query_timeout">>
      [] pattern = "execution timeout" ->
            <<"execution", " ", "timeout">>
      [] pattern = "statement timeout" ->
            <<"statement", " ", "timeout">>
      [] pattern = "could not connect to server" ->
            <<"could", " ", "not", " ", "connect", " ", "to", " ", "server">>
      [] pattern = "connection refused" ->
            <<"connection", " ", "refused">>
      [] pattern = "connection reset" ->
            <<"connection", " ", "reset">>
      [] pattern = "connection timed out" ->
            <<"connection", " ", "timed", " ", "out">>
      [] pattern = "server closed the connection" ->
            <<"server", " ", "closed", " ", "the", " ", "connection">>
      [] pattern = "permission denied" ->
            <<"permission", " ", "denied">>
      [] pattern = "must be owner of" ->
            <<"must", " ", "be", " ", "owner", " ", "of">>
      [] pattern = "access denied" ->
            <<"access", " ", "denied">>
      [] pattern = "column .* does not exist" ->
            <<"column", " ", ".*", " ", "does", " ", "not", " ", "exist">>
      [] pattern = "column .* of relation .* does not exist" ->
            <<"column", " ", ".*", " ", "of", " ", "relation", " ", ".*", " ", "does",
                " ", "not", " ", "exist">>
      [] pattern = "relation .* does not exist" ->
            <<"relation", " ", ".*", " ", "does", " ", "not", " ", "exist">>
      [] pattern = "table .* does not exist" ->
            <<"table", " ", ".*", " ", "does", " ", "not", " ", "exist">>
      [] pattern = "must appear in the group by clause" ->
            <<"must", " ", "appear", " ", "in", " ", "the", " ", "group", " ", "by",
                " ", "clause">>
      [] pattern = "aggregate functions are not allowed" ->
            <<"aggregate", " ", "functions", " ", "are", " ", "not", " ", "allowed">>
      [] pattern = "column .* must appear in the group by" ->
            <<"column", " ", ".*", " ", "must", " ", "appear", " ", "in", " ", "the",
                " ", "group", " ", "by">>
      [] pattern = "column reference .* is ambiguous" ->
            <<"column", " ", "reference", " ", ".*", " ", "is", " ", "ambiguous">>
      [] pattern = "missing from-clause entry" ->
            <<"missing", " ", "from", "-", "clause", " ", "entry">>
      [] pattern = "ambiguous column" ->
            <<"ambiguous", " ", "column">>
      [] pattern = "cannot cast type" ->
            <<"cannot", " ", "cast", " ", "type">>
      [] pattern = "invalid input syntax for type" ->
            <<"invalid", " ", "input", " ", "syntax", " ", "for", " ", "type">>
      [] pattern = "operator does not exist" ->
            <<"operator", " ", "does", " ", "not", " ", "exist">>
      [] pattern = "type mismatch" ->
            <<"type", " ", "mismatch">>
      [] pattern = "syntax error at or near" ->
            <<"syntax", " ", "error", " ", "at", " ", "or", " ", "near">>
      [] pattern = "syntax error" ->
            <<"syntax", " ", "error">>
      [] pattern = "invalid syntax" ->
            <<"invalid", " ", "syntax">>


\* the patterns of the classifier, literal texts and regular expressions
Patterns ==
    {"canceling statement due to statement timeout", "query_timeout", "execution timeout",
     "statement timeout", "could not connect to server", "connection refused",
     "connection reset", "connection timed out", "server closed the connection",
     "permission denied", "must be owner of", "access denied",
     "column .* does not exist", "column .* of relation .* does not exist",
     "relation .* does not exist", "table .* does not exist",
     "must appear in the group by clause", "aggregate functions are not allowed",
     "column .* must appear in the group by", "column reference .* is ambiguous",
     "missing from-clause entry", "ambiguous column", "cannot cast type",
     "invalid input syntax for type", "operator does not exist", "type mismatch",
     "syntax error at or near", "syntax error", "invalid syntax"}

\* the words p[j..] of a pattern match the words of the message from w[i] on;
\* ".*" matches any words up to the end of the line
RECURSIVE MatchFrom(_, _, _, _)
MatchFrom(p, j, w, i) ==
    IF j > Len(p) THEN TRUE
    ELSE IF p[j] = ".*"
         THEN \E k \in i..(Len(w) + 1) :
                  /\ \A n \in i..(k - 1) : w[n] # "\n"
                  /\ MatchFrom(p, j + 1, w, k)
    ELSE /\ i <= Len(w)
         /\ w[i] = p[j]
         /\ MatchFrom(p, j + 1, w, i + 1)

\* pattern in error_msg, re.search(pattern, error_msg)
Search(p, w) == \E i \in 1..(Len(w) + 1) : MatchFrom(p, 1, w, i)

\* the classifier's patterns that match the lower-cased message
PatternsIn(error_msg) ==
    UNION {{pattern \in Patterns : Search(PatternWords(pattern), w)} : w \in {WordsOf(error_msg)}}

_check_timeout(error_msg) ==
    PatternsIn(error_msg) \cap {"canceling statement due to statement timeout",
        "query_timeout", "execution timeout", "statement timeout"} # {}
_check_connection(error_msg) ==
    PatternsIn(error_msg) \cap {"could not connect to server", "connection refused",
        "connection reset", "connection timed out", "server closed the connection"} # {}
_check_permission(error_msg) ==
    PatternsIn(error_msg) \cap {"permission denied", "must be owner of", "access denied"} # {}
_check_column_not_found(error_msg) ==
    PatternsIn(error_msg) \cap {"column .* does not exist",
        "column .* of relation .* does not exist"} # {}
\* _check_table_not_found with the pattern for "table" alone
_check_table_not_found_table_word_only(error_msg) ==
    PatternsIn(error_msg) \cap {"table .* does not exist"} # {}
_check_table_not_found(error_msg) ==
    PatternsIn(error_msg) \cap {"relation .* does not exist", "table .* does not exist"} # {}
_check_aggregation_error(error_msg) ==
    PatternsIn(error_msg) \cap {"must appear in the group by clause",
        "aggregate functions are not allowed", "column .* must appear in the group by"} # {}
_check_join_error(error_msg) ==
    PatternsIn(error_msg) \cap {"column reference .* is ambiguous",
        "missing from-clause entry", "ambiguous column"} # {}
_check_type_mismatch(error_msg) ==
    PatternsIn(error_msg) \cap {"cannot cast type", "invalid input syntax for type",
        "operator does not exist", "type mismatch"} # {}
_check_syntax_error(error_msg) ==
    PatternsIn(error_msg) \cap {"syntax error at or near", "syntax error", "invalid syntax"} # {}

\* classify with the syntax check ahead of the schema checks
classify_syntax_first(error_msg) ==
    IF _check_timeout(error_msg) THEN "timeout"
    ELSE IF _check_connection(error_msg) THEN "connection_error"
    ELSE IF _check_permission(error_msg) THEN "permission_denied"
    ELSE IF _check_syntax_error(error_msg) THEN "syntax_error"
    ELSE IF _check_column_not_found(error_msg) THEN "column_not_found"
    ELSE IF _check_table_not_found(error_msg) THEN "table_not_found"
    ELSE IF _check_aggregation_error(error_msg) THEN "aggregation_error"
    ELSE IF _check_join_error(error_msg) THEN "join_error"
    ELSE IF _check_type_mismatch(error_msg) THEN "type_mismatch"
    ELSE "unknown"

\* ErrorClassifier.classify: the first check that matches, in priority order
classify(error_msg) ==
    CASE _check_timeout(error_msg) -> "timeout"
      [] ~_check_timeout(error_msg) /\ _check_connection(error_msg) -> "connection_error"
      [] ~_check_timeout(error_msg) /\ ~_check_connection(error_msg)
            /\ _check_permission(error_msg) -> "permission_denied"
      [] OTHER ->
            IF _check_column_not_found(error_msg) THEN "column_not_found"
            ELSE IF _check_table_not_found(error_msg) THEN "table_not_found"
            ELSE IF _check_aggregation_error(error_msg) THEN "aggregation_error"
            ELSE IF _check_join_error(error_msg) THEN "join_error"
            ELSE IF _check_type_mismatch(error_msg) THEN "type_mismatch"
            ELSE IF _check_syntax_error(error_msg) THEN "syntax_error"
            ELSE "unknown"

\* extract_details: column "?(\w+)"? does not exist
MissingColumn(error_msg) ==
    IF error_msg = "syntax error: column \"id\" does not exist" THEN "id" ELSE "unknown"

\* the tables of the schema whose name occurs in the lower-cased message
MentionedTables(error_msg, schema) ==
    IF error_msg = "permission denied for table products"
    THEN DOMAIN schema \cap {"products"} ELSE {}

\* generate_feedback, as the fragments of its text; the column-not-found
\* text names the table the error refers to and the close matches (cutoff 0.6)
generate_feedback(category, error_msg, schema) ==
    CASE category = "column_not_found" ->
            LET col == MissingColumn(error_msg)
                named == MentionedTables(error_msg, schema)
                target == IF named # {} THEN CHOOSE t \in named : TRUE
                          ELSE IF Cardinality(DOMAIN schema) = 1
                               THEN CHOOSE t \in DOMAIN schema : TRUE ELSE ""
                suggestions == IF target = "" THEN << >>
                               ELSE SelectSeq(schema[target],
                                        LAMBDA x : Ratio(col, x) >= QualifiedCutoff)
            IN  IF DOMAIN schema = {}
                THEN <<"Column '", col, "' does not exist. Check schema for valid column names.">>
                ELSE IF target = "" THEN <<"Column '", col, "' does not exist. ">>
                ELSE <<"Column '", col, "' does not exist in table '", target,
                       "'. Available columns in ", target, ": ">> \o schema[target]
                     \o (IF suggestions = << >> THEN << >>
                         ELSE <<". Did you mean: ">> \o suggestions)
      [] category = "timeout" -> <<"Query execution timeout (exceeded 30 seconds). ">>
      [] category = "permission_denied" -> <<"Permission denied. ">>
      [] category = "connection_error" -> <<"Database connection error. ">>
      [] category = "syntax_error" -> <<"SQL syntax error near '", "unknown", "'. ">>
      [] category = "unknown" -> <<"Unknown error occurred: ", "No details available">>
      [] OTHER -> <<category>>

\* row_limit: int = 1000 of ExecutorAgent.execute
DefaultRowLimit == 1000

\* the row limits ExecutorAgent.execute is called with
RowLimits == {1, 2, DefaultRowLimit}

\* the result sizes a query may have
RowCounts == 0..MaxRows

\* the result sizes of the queries a run executes: none and many
RunRowCounts == {0, MaxRows}

\* f"{limit}" and the number a LIMIT clause of the texts names
Numeral(n) ==
    CASE n = 1 -> "1"
      [] n = 2 -> "2"
      [] n = 100 -> "100"
      [] n = DefaultRowLimit -> "1000"
LimitValue(c) ==
    CASE c = "1" -> 1
      [] c = "2" -> 2
      [] c = "100" -> 100
      [] c = "1000" -> DefaultRowLimit

\* sql.rstrip(";"): the text without the semicolons it ends with
RECURSIVE RStripSemicolons(_)
RStripSemicolons(sql) ==
    IF sql # << >> /\ sql[Len(sql)] = ";"
    THEN RStripSemicolons(SubSeq(sql, 1, Len(sql) - 1)) ELSE sql

\* str.strip(): the text without the white space at its two ends
RECURSIVE Strip(_)
Strip(sql) ==
    IF sql # << >> /\ sql[Len(sql)] = Space THEN Strip(SubSeq(sql, 1, Len(sql) - 1))
    ELSE IF sql # << >> /\ Head(sql) = Space THEN Strip(Tail(sql))
    ELSE sql

\* "LIMIT" in chunk, for an upper-cased chunk u
LimitWithin(u) == u = "LIMIT"

\* _add_row_limit: the text stripped of its final semicolons and outer white
\* space, and a LIMIT clause appended unless "LIMIT" occurs in it
_add_row_limit(sql, limit) ==
    TheOnly({IF \E i \in DOMAIN stripped : LimitWithin(Upper(stripped[i])) THEN stripped
             ELSE stripped \o <<"LIMIT", Numeral(limit)>> :
               stripped \in {Strip(RStripSemicolons(sql))}})

\* a dict without keys, and dict.get
EmptyDict == [k \in {} |-> TRUE]
Get(d, key, default) == IF key \in DOMAIN d THEN d[key] ELSE default

\* the rows the database has for a statement whose query would produce
\* `produced` rows without a limit: a LIMIT clause at the end of the
\* statement cuts them
Cursor(statement, produced) ==
    IF /\ Len(statement) >= 2
       /\ Upper(statement[Len(statement) - 1]) = "LIMIT"
    THEN [i \in 1..Min(produced, LimitValue(statement[Len(statement)])) |-> i]
    ELSE [i \in 1..produced |-> i]

\* result.fetchall() in the place of fetchmany
fetchmany_everything(rows, size) == rows

\* result.fetchmany(size): the first `size` rows of the cursor
fetchmany(rows, size) == SubSeq(rows, 1, Min(Len(rows), size))

\* the statement conn.execute was given: none when the connection failed
\* before it
Sent(sql_with_limit, outcome) ==
    IF outcome = "connection refused" THEN <<"None">> ELSE sql_with_limit

\* ExecutorAgent.execute, given the database's answer to the statement and
\* the rows its query would produce; `sent` records the statement that was
\* passed to the database
execute(sql, row_limit, schema, outcome, produced) ==
    TheOnly({
        IF outcome = "ok"
        THEN TheOnly({[success |-> TRUE, data |-> rows, row_count |-> Len(rows),
                       error_type |-> "None", error_message |-> "None",
                       error_feedback |-> <<"None">>, sql_executed |-> sql_with_limit,
                       sent |-> sql_with_limit] :
                        rows \in {fetchmany(Cursor(sql_with_limit, produced), row_limit)}})
        ELSE TheOnly({[success |-> FALSE, data |-> <<"None">>, row_count |-> 0,
                       error_type |-> category, error_message |-> outcome,
                       error_feedback |-> generate_feedback(category, outcome, schema),
                       sql_executed |-> sql,
                       sent |-> Sent(sql_with_limit, outcome)] :
                        category \in {classify(outcome)}}) :
          sql_with_limit \in {_add_row_limit(sql, row_limit)}})

\* ------------------------------------------------------------------------
\* ExecutionMetrics
\* ------------------------------------------------------------------------

\* float addition total_execution_time_ms + execution_time_ms (IEEE 754
\* binary64, round to nearest), for the sums of at most 5 execution times;
\* a float is written as Python prints it
FloatAdd(a, b) ==
    CASE a = "0.0" /\ b = "0.1" -> "0.1"
      [] a = "0.0" /\ b = "0.2" -> "0.2"
      [] a = "0.1" /\ b = "0.1" -> "0.2"
      [] a = "0.1" /\ b = "0.2" -> "0.30000000000000004"
      [] a = "0.2" /\ b = "0.1" -> "0.30000000000000004"
      [] a = "0.2" /\ b = "0.2" -> "0.4"
      [] a = "0.30000000000000004" /\ b = "0.1" -> "0.4"
      [] a = "0.30000000000000004" /\ b = "0.2" -> "0.5"
      [] a = "0.4" /\ b = "0.1" -> "0.5"
      [] a = "0.4" /\ b = "0.2" -> "0.6000000000000001"
      [] a = "0.5" /\ b = "0.1" -> "0.6"
      [] a = "0.5" /\ b = "0.2" -> "0.7"
      [] a = "0.6" /\ b = "0.1" -> "0.7"
      [] a = "0.6" /\ b = "0.2" -> "0.8"
      [] a = "0.6000000000000001" /\ b = "0.1" -> "0.7000000000000001"
      [] a = "0.6000000000000001" /\ b = "0.2" -> "0.8"
      [] a = "0.7" /\ b = "0.1" -> "0.7999999999999999"
      [] a = "0.7" /\ b = "0.2" -> "0.8999999999999999"
      [] a = "0.7000000000000001" /\ b = "0.1" -> "0.8"
      [] a = "0.7000000000000001" /\ b = "0.2" -> "0.9000000000000001"
      [] a = "0.8" /\ b = "0.1" -> "0.9"
      [] a = "0.8" /\ b = "0.2" -> "1.0"

\* float division total_execution_time_ms / total_queries
FloatDiv(a, n) ==
    CASE a = "0.1" /\ n = 1 -> "0.1"
      [] a = "0.2" /\ n = 1 -> "0.2"
      [] a = "0.2" /\ n = 2 -> "0.1"
      [] a = "0.30000000000000004" /\ n = 2 -> "0.15000000000000002"
      [] a = "0.30000000000000004" /\ n = 3 -> "0.10000000000000002"
      [] a = "0.4" /\ n = 2 -> "0.2"
      [] a = "0.4" /\ n = 3 -> "0.13333333333333333"
      [] a = "0.4" /\ n = 4 -> "0.1"
      [] a = "0.5" /\ n = 3 -> "0.16666666666666666"
      [] a = "0.5" /\ n = 4 -> "0.125"
      [] a = "0.5" /\ n = 5 -> "0.1"
      [] a = "0.6" /\ n = 4 -> "0.15"
      [] a = "0.6" /\ n = 5 -> "0.12"
      [] a = "0.6000000000000001" /\ n = 3 -> "0.20000000000000004"
      [] a = "0.6000000000000001" /\ n = 4 -> "0.15000000000000002"
      [] a = "0.6000000000000001" /\ n = 5 -> "0.12000000000000002"
      [] a = "0.7" /\ n = 4 -> "0.175"
      [] a = "0.7" /\ n = 5 -> "0.13999999999999999"
      [] a = "0.7000000000000001" /\ n = 4 -> "0.17500000000000002"
      [] a = "0.7000000000000001" /\ n = 5 -> "0.14"
      [] a = "0.7999999999999999" /\ n = 5 -> "0.15999999999999998"
      [] a = "0.8" /\ n = 4 -> "0.2"
      [] a = "0.8" /\ n = 5 -> "0.16"
      [] a = "0.8999999999999999" /\ n = 5 -> "0.18"
      [] a = "0.9" /\ n = 5 -> "0.18"
      [] a = "0.9000000000000001" /\ n = 5 -> "0.18000000000000002"
      [] a = "1.0" /\ n = 5 -> "0.2"

\* the place of a float in the order of the floats
FloatRank(a) ==
    CASE a = "0.0" -> 0
      [] a = "0.1" -> 1
      [] a = "0.10000000000000002" -> 2
      [] a = "0.12" -> 3
      [] a = "0.12000000000000002" -> 4
      [] a = "0.125" -> 5
      [] a = "0.13333333333333333" -> 6
      [] a = "0.13999999999999999" -> 7
      [] a = "0.14" -> 8
      [] a = "0.15" -> 9
      [] a = "0.15000000000000002" -> 10
      [] a = "0.15999999999999998" -> 11
      [] a = "0.16" -> 12
      [] a = "0.16666666666666666" -> 13
      [] a = "0.175" -> 14
      [] a = "0.17500000000000002" -> 15
      [] a = "0.18" -> 16
      [] a = "0.18000000000000002" -> 17
      [] a = "0.2" -> 18
      [] a = "0.20000000000000004" -> 19
      [] a = "0.30000000000000004" -> 20
      [] a = "0.4" -> 21
      [] a = "0.5" -> 22
      [] a = "0.6" -> 23
      [] a = "0.6000000000000001" -> 24
      [] a = "0.7" -> 25
      [] a = "0.7000000000000001" -> 26
      [] a = "0.7999999999999999" -> 27
      [] a = "0.8" -> 28
      [] a = "0.8999999999999999" -> 29
      [] a = "0.9" -> 30
      [] a = "0.9000000000000001" -> 31
      [] a = "1.0" -> 32
      [] a = "inf" -> 33

FloatMax(a, b) == IF FloatRank(a) >= FloatRank(b) THEN a ELSE b
FloatMin(a, b) == IF FloatRank(a) <= FloatRank(b) THEN a ELSE b

\* the execution times a call may take, in milliseconds, rounded to two
\* decimals as execute rounds them
Times == {"0.1", "0.2"}

\* ExecutionMetrics(): the dataclass defaults
ExecutionMetrics ==
    [total_queries |-> 0, successful_queries |-> 0, failed_queries |-> 0,
     total_execution_time_ms |-> "0.0", avg_execution_time_ms |-> "0.0",
     max_execution_time_ms |-> "0.0", min_execution_time_ms |-> "inf",
     error_counts |-> EmptyDict]

\* ExecutionMetrics.record_error
record_error(error_counts, error_type) ==
    [c \in DOMAIN error_counts \cup {error_type} |->
        IF c = error_type THEN Get(error_counts, error_type, 0) + 1 ELSE error_counts[c]]

\* ExecutionMetrics.update without the call of record_error
ExecutionMetrics_update_without_record_error(m, success, error_type, execution_time_ms) ==
    TheOnly({[total_queries |-> m.total_queries + 1,
              successful_queries |-> m.successful_queries + (IF success THEN 1 ELSE 0),
              failed_queries |-> m.failed_queries + (IF success THEN 0 ELSE 1),
              total_execution_time_ms |-> total,
              avg_execution_time_ms |-> FloatDiv(total, m.total_queries + 1),
              max_execution_time_ms |-> FloatMax(m.max_execution_time_ms, execution_time_ms),
              min_execution_time_ms |-> FloatMin(m.min_execution_time_ms, execution_time_ms),
              error_counts |-> m.error_counts] :
               total \in {FloatAdd(m.total_execution_time_ms, execution_time_ms)}})

\* ExecutionMetrics.update
ExecutionMetrics_update(m, success, error_type, execution_time_ms) ==
    TheOnly({[total_queries |-> m.total_queries + 1,
              successful_queries |-> m.successful_queries + (IF success THEN 1 ELSE 0),
              failed_queries |-> m.failed_queries + (IF success THEN 0 ELSE 1),
              total_execution_time_ms |-> total,
              avg_execution_time_ms |-> FloatDiv(total, m.total_queries + 1),
              max_execution_time_ms |-> FloatMax(m.max_execution_time_ms, execution_time_ms),
              min_execution_time_ms |-> FloatMin(m.min_execution_time_ms, execution_time_ms),
              error_counts |-> IF success THEN m.error_counts
                               ELSE record_error(m.error_counts, error_type)] :
               total \in {FloatAdd(m.total_execution_time_ms, execution_time_ms)}})


\* ------------------------------------------------------------------------
\* correction_strategies
\* ------------------------------------------------------------------------

\* class ErrorCategory(Enum), by value
ErrorCategory ==
    {"column_not_found", "table_not_found", "syntax_error", "type_mismatch", "join_error",
     "aggregation_error", "timeout", "permission_denied", "connection_error", "unknown"}

\* NON_RETRYABLE_ERRORS with timeout in it
NON_RETRYABLE_ERRORS_with_timeout == {"permission_denied", "connection_error", "timeout"}

NON_RETRYABLE_ERRORS == {"permission_denied", "connection_error"}

RETRYABLE_ERRORS ==
    {"column_not_found", "aggregation_error", "timeout", "syntax_error", "type_mismatch",
     "join_error", "table_not_found", "unknown"}

\* CorrectionStrategyRouter.generate_prompt: the strategy by error type
StrategyFor(error_type) ==
    IF error_type \in {"column_not_found", "aggregation_error", "timeout"}
    THEN error_type ELSE "generic"

\* ------------------------------------------------------------------------
\* self_correction: the state of one run
\* ------------------------------------------------------------------------

VARIABLES
    agent_max_attempts,  \* CorrectionAgent.max_attempts
    threshold,           \* CriticAgent.threshold, in tenths
    pc,                  \* the node the workflow runs next
    filtered_schema,     \* SQLCorrectionState, field by field
    generated_sql,
    validation_result,
    execution_result,
    attempt_number,
    max_attempts,
    previous_sqls,
    final_success,
    fallback_used,
    result,              \* the CorrectionResult returned, EmptyDict before
    metrics,             \* CorrectionAgent.metrics
    calls,               \* history: the collaborator calls of the run, in order
    _schema_linker,      \* the module-level references the node functions use:
    _sql_generator,      \* each names the CorrectionAgent whose construction
    _critic,             \* set it, _critic with the threshold of that critic
    _executor,
    threads,             \* the threads inside CorrectionMetrics.update
    error,               \* the exception the database call raised, none before
    category,            \* the ErrorCategory the classifier returned for it
    critic_call,         \* the arguments of a call of CriticAgent.validate
    critic_result,       \* the ValidationResult it returned, EmptyDict before
    repair_call,         \* the arguments of a call of auto_fix_columns
    repair_result,       \* what it returned, and what it returns for that
    executor_call,       \* the arguments of a call of ExecutorAgent.execute
    executor_result,     \* the ExecutionResult it returned, EmptyDict before
    executor_metrics     \* ExecutorAgent.metrics of the agent these calls are made on

vars == <<agent_max_attempts, threshold, pc, filtered_schema, generated_sql,
          validation_result, execution_result, attempt_number, max_attempts,
          previous_sqls, final_success, fallback_used, result, metrics, calls,
          _schema_linker, _sql_generator, _critic, _executor, threads, error, category,
          critic_call, critic_result, repair_call, repair_result, executor_call,
          executor_result, executor_metrics>>

\* the calls made on auto_fix_columns and ExecutorAgent.execute directly
direct_calls ==
    <<repair_call, repair_result, executor_call, executor_result, executor_metrics>>

\* global _schema_linker, _sql_generator, _critic, _executor
module_globals == <<_schema_linker, _sql_generator, _critic, _executor>>

Threads == 1..MaxThreads

\* what a run of the workflow leaves alone
outside_run == <<module_globals, threads, error, category, critic_call, critic_result,
                 direct_calls>>

state_vars == <<filtered_schema, generated_sql, validation_result, execution_result,
                attempt_number, max_attempts, previous_sqls, final_success, fallback_used>>

\* the thresholds a CriticAgent is constructed with: -0.1, 0, 0.5 and the default
Thresholds == {-1, 0, 5, DefaultThreshold}

Last(s) == s[Len(s)]

\* the calls of one kind, in order
CallsOf(kind) == SelectSeq(calls, LAMBDA c : c.call = kind)

ModelCalls == SelectSeq(calls, LAMBDA c : c.call \in {"generate", "generate_with_correction"})

\* CorrectionAgent.__init__ and CorrectionMetrics()
Init ==
    /\ agent_max_attempts \in 0..MaxMaxAttempts
    /\ threshold \in Thresholds
    /\ pc = "idle"
    /\ filtered_schema = EmptyDict
    /\ generated_sql = << >>
    /\ validation_result = EmptyDict
    /\ execution_result = EmptyDict
    /\ attempt_number = 0
    /\ max_attempts = 0
    /\ previous_sqls = << >>
    /\ final_success = FALSE
    /\ fallback_used = FALSE
    /\ result = EmptyDict
    /\ metrics = [total_queries |-> 0, first_attempt_success |-> 0, corrected_success |-> 0,
                  final_failures |-> 0, total_attempts |-> 0]
    /\ calls = << >>
    /\ _schema_linker = [agent |-> 1]
    /\ _sql_generator = [agent |-> 1]
    /\ _critic = [agent |-> 1, threshold |-> threshold]
    /\ _executor = [agent |-> 1]
    /\ threads = [t \in Threads |-> [pc |-> "running", line |-> 0, phase |-> "load",
                                     success |-> FALSE, attempts |-> 0, loaded |-> 0]]
    /\ error = EmptyDict
    /\ category = "none"
    /\ critic_call = EmptyDict
    /\ critic_result = EmptyDict
    /\ repair_call = EmptyDict
    /\ repair_result = EmptyDict
    /\ executor_call = EmptyDict
    /\ executor_result = EmptyDict
    /\ executor_metrics = ExecutionMetrics

\* execute_with_retry: initial_state, then graph.invoke at the entry point
Invoke ==
    /\ pc = "idle"
    /\ filtered_schema' = EmptyDict
    /\ generated_sql' = << >>
    /\ validation_result' = EmptyDict
    /\ execution_result' = EmptyDict
    /\ attempt_number' = 1
    /\ max_attempts' = agent_max_attempts
    /\ previous_sqls' = << >>
    /\ final_success' = FALSE
    /\ fallback_used' = FALSE
    /\ pc' = "schema_link"
    /\ UNCHANGED <<agent_max_attempts, threshold, outside_run, result, metrics, calls>>

\* an edge from increment_attempt back to the entry point
EdgeFromIncrementAttempt_to_entry == "schema_link"

\* the edges of create_self_correction_graph
EdgeFromSchemaLink == "generate_sql"
EdgeFromGenerateSql == "critic"
EdgeFromIncrementAttempt == "generate_sql"

\* schema_link_node
SchemaLinkNode ==
    /\ pc = "schema_link"
    /\ \E schema \in Schemas :
        /\ filtered_schema' = schema
        /\ calls' = Append(calls, [call |-> "link_schema", attempt |-> attempt_number,
                                   returned |-> schema])
    /\ pc' = EdgeFromSchemaLink
    /\ UNCHANGED <<agent_max_attempts, threshold, outside_run, generated_sql, validation_result,
                   execution_result, attempt_number, max_attempts, previous_sqls,
                   final_success, fallback_used, result, metrics>>

\* build_correction_prompt looking at the execution result first: an
\* execution result left by an older attempt wins over the Critic's issues
build_correction_prompt_executor_first(sql, validation, execution) ==
    IF "error_type" \in DOMAIN execution /\ ~execution.success
    THEN [source |-> StrategyFor(execution.error_type), failed_sql |-> sql,
          error_type |-> execution.error_type,
          error_feedback |-> execution.error_feedback]
    ELSE [source |-> "critic", failed_sql |-> sql,
          issues |-> Get(validation, "issues", << >>)]

\* build_correction_prompt: what the prompt is built from
build_correction_prompt(sql, validation, execution) ==
    IF ~Get(validation, "is_valid", TRUE)
    THEN [source |-> "critic", failed_sql |-> sql,
          issues |-> Get(validation, "issues", << >>)]
    ELSE [source |-> StrategyFor(Get(execution, "error_type", "unknown")),
          failed_sql |-> sql,
          error_type |-> Get(execution, "error_type", "unknown"),
          error_feedback |-> Get(execution, "error_feedback",
                                 Get(execution, "error_message", <<"Unknown error">>))]

\* generate_sql_node asking the model again on every retry
GenerateCall_model_on_every_retry(attempt) ==
    IF attempt = 1 THEN "generate" ELSE "generate_with_correction"

\* generate_sql_node: which producer an attempt uses
GenerateCall(attempt) ==
    IF attempt = 1 THEN "generate"
    ELSE IF attempt = 2 THEN "auto_fix_columns"
    ELSE "generate_with_correction"

\* generate_sql_node marking the state when the deterministic repair wrote
\* the text
fallback_after_generate_marking_repair(call, flag) == flag \/ call = "auto_fix_columns"

\* generate_sql_node: the fallback_used flag it leaves in the state ("DO NOT
\* set fallback_used here")
fallback_after_generate(call, flag) == flag

\* generate_sql_node
GenerateSqlNode ==
    /\ pc = "generate_sql"
    /\ \E answer \in SqlTexts :
       \E call \in {GenerateCall(attempt_number)} :
       \E sql \in {IF call = "auto_fix_columns"
                   THEN auto_fix_columns(Last(previous_sqls), filtered_schema)
                   ELSE answer} :
            /\ generated_sql' = sql
            /\ previous_sqls' = Append(previous_sqls, sql)
            /\ calls' = Append(calls,
                  [call |-> call, attempt |-> attempt_number, schema |-> filtered_schema,
                   prompt |-> IF call = "generate_with_correction"
                              THEN build_correction_prompt(generated_sql, validation_result,
                                                           execution_result)
                              ELSE EmptyDict,
                   returned |-> sql])
            /\ fallback_used' = fallback_after_generate(call, fallback_used)
    /\ pc' = EdgeFromGenerateSql
    /\ UNCHANGED <<agent_max_attempts, threshold, outside_run, filtered_schema, validation_result,
                   execution_result, attempt_number, max_attempts, final_success,
                   result, metrics>>

\* the fragments of issue and feedback texts that hold "does not exist"
DoesNotExistFragments ==
    {"does not exist", "' does not exist", "' does not exist. ", "' does not exist in table '",
     "' does not exist. Check schema for valid column names."}

\* "does not exist" in issue.lower()
MentionsDoesNotExist(issue) == \E i \in DOMAIN issue : issue[i] \in DoesNotExistFragments

\* should_execute_or_retry giving up as soon as the Critic blocks a text
should_execute_or_retry_ending_when_blocked(is_valid, attempt, max) ==
    IF is_valid THEN "execute" ELSE "END"

\* should_execute_or_retry without the is_valid test
should_execute_or_retry_unconditionally(is_valid, attempt, max) == "execute"

\* should_execute_or_retry
should_execute_or_retry(is_valid, attempt, max) ==
    IF is_valid THEN "execute"
    ELSE IF attempt >= max THEN "END"
    ELSE "increment_attempt"

\* should_retry_or_end without the NON_RETRYABLE test
should_retry_or_end_retrying_fatal(exec_result, attempt, max, sqls) ==
    IF exec_result.success THEN "END"
    ELSE IF attempt >= max THEN "END"
    ELSE IF Len(sqls) >= 2
            /\ normalize_sql(sqls[Len(sqls)]) = normalize_sql(sqls[Len(sqls) - 1])
         THEN "END"
    ELSE "increment_attempt"

\* should_retry_or_end without the retry guard
should_retry_or_end_without_guard(exec_result, attempt, max, sqls) ==
    IF exec_result.success THEN "END"
    ELSE IF attempt >= max THEN "END"
    ELSE IF exec_result.error_type \in NON_RETRYABLE_ERRORS THEN "END"
    ELSE "increment_attempt"

\* should_retry_or_end with a retry guard that waits for a third text
should_retry_or_end_guarding_from_third(exec_result, attempt, max, sqls) ==
    IF exec_result.success THEN "END"
    ELSE IF attempt >= max THEN "END"
    ELSE IF exec_result.error_type \in NON_RETRYABLE_ERRORS THEN "END"
    ELSE IF Len(sqls) >= 3
            /\ normalize_sql(sqls[Len(sqls)]) = normalize_sql(sqls[Len(sqls) - 1])
         THEN "END"
    ELSE "increment_attempt"

\* should_retry_or_end with a retry guard that compares the two texts before
\* the last one
should_retry_or_end_comparing_earlier_pair(exec_result, attempt, max, sqls) ==
    IF exec_result.success THEN "END"
    ELSE IF attempt >= max THEN "END"
    ELSE IF exec_result.error_type \in NON_RETRYABLE_ERRORS THEN "END"
    ELSE IF Len(sqls) >= 3
            /\ normalize_sql(sqls[Len(sqls) - 1]) = normalize_sql(sqls[Len(sqls) - 2])
         THEN "END"
    ELSE "increment_attempt"

\* should_retry_or_end without the success test
should_retry_or_end_ignoring_success(exec_result, attempt, max, sqls) ==
    IF attempt >= max THEN "END"
    ELSE IF exec_result.error_type \in NON_RETRYABLE_ERRORS THEN "END"
    ELSE IF Len(sqls) >= 2
            /\ normalize_sql(sqls[Len(sqls)]) = normalize_sql(sqls[Len(sqls) - 1])
         THEN "END"
    ELSE "increment_attempt"

\* should_retry_or_end; every final_success it assigns is the value
\* execute_node has already stored
should_retry_or_end(exec_result, attempt, max, sqls) ==
    IF exec_result.success THEN "END"
    ELSE IF attempt >= max THEN "END"
    ELSE IF exec_result.error_type \in NON_RETRYABLE_ERRORS THEN "END"
    ELSE IF Len(sqls) >= 2
            /\ normalize_sql(sqls[Len(sqls)]) = normalize_sql(sqls[Len(sqls) - 1])
         THEN "END"
    ELSE "increment_attempt"

\* critic_node storing the first ValidationResult after a repair
CriticSteps_keeping_first_result(sql, schema, thr) ==
    TheOnly({IF /\ ~first.is_valid
                /\ \E i \in DOMAIN first.issues : MentionsDoesNotExist(first.issues[i])
             THEN IF normalize_sql(fixed) # normalize_sql(sql)
                  THEN TheOnly({[sql |-> fixed, result |-> first,
                                 made |-> <<[call |-> "validate", sql |-> sql, returned |-> first],
                                            [call |-> "repair", sql |-> sql, returned |-> fixed],
                                            [call |-> "validate", sql |-> fixed,
                                             returned |-> second]>>] :
                                  second \in {validate(fixed, schema, thr)}})
                  ELSE [sql |-> sql, result |-> first,
                        made |-> <<[call |-> "validate", sql |-> sql, returned |-> first],
                                   [call |-> "repair", sql |-> sql, returned |-> fixed]>>]
             ELSE [sql |-> sql, result |-> first,
                   made |-> <<[call |-> "validate", sql |-> sql, returned |-> first]>>] :
               first \in {validate(sql, schema, thr)},
               fixed \in {auto_fix_columns(sql, schema)}})

\* critic_node: the text it leaves in generated_sql, the ValidationResult it
\* stores, and the calls it made of CriticAgent.validate and, as "repair",
\* of auto_fix_columns; the loop over the issues stops at the first one that
\* holds "does not exist"
CriticSteps(sql, schema, thr) ==
    TheOnly({IF /\ ~first.is_valid
                /\ \E i \in DOMAIN first.issues : MentionsDoesNotExist(first.issues[i])
             THEN IF normalize_sql(fixed) # normalize_sql(sql)
                  THEN TheOnly({[sql |-> fixed, result |-> second,
                                 made |-> <<[call |-> "validate", sql |-> sql, returned |-> first],
                                            [call |-> "repair", sql |-> sql, returned |-> fixed],
                                            [call |-> "validate", sql |-> fixed,
                                             returned |-> second]>>] :
                                  second \in {validate(fixed, schema, thr)}})
                  ELSE [sql |-> sql, result |-> first,
                        made |-> <<[call |-> "validate", sql |-> sql, returned |-> first],
                                   [call |-> "repair", sql |-> sql, returned |-> fixed]>>]
             ELSE [sql |-> sql, result |-> first,
                   made |-> <<[call |-> "validate", sql |-> sql, returned |-> first]>>] :
               first \in {validate(sql, schema, thr)},
               fixed \in {auto_fix_columns(sql, schema)}})

\* critic_node, then the conditional edge should_execute_or_retry
CriticNode ==
    /\ pc = "critic"
    /\ \E step \in {CriticSteps(generated_sql, filtered_schema, _critic.threshold)} :
           /\ generated_sql' = step.sql
           /\ validation_result' = [is_valid |-> step.result.is_valid,
                                    confidence |-> step.result.confidence,
                                    issues |-> step.result.issues]
           /\ calls' = calls \o [i \in DOMAIN step.made |->
                                   [call |-> step.made[i].call, attempt |-> attempt_number,
                                    schema |-> filtered_schema,
                                    sql |-> step.made[i].sql,
                                    returned |-> step.made[i].returned]]
           /\ pc' = should_execute_or_retry(step.result.is_valid, attempt_number, max_attempts)
    /\ UNCHANGED <<agent_max_attempts, threshold, outside_run, filtered_schema, execution_result,
                   attempt_number, max_attempts, previous_sqls, final_success,
                   fallback_used, result, metrics>>

\* an except clause of ExecutorAgent.execute that lets the errors the
\* classifier has no category for pass
Propagates_unclassified(outcome) == outcome # "ok" /\ classify(outcome) = "unknown"

\* ExecutorAgent.execute lets the exception of the database call out:
\* `except Exception as e` catches every one of them
Propagates(outcome) == FALSE

\* execute_node, then the conditional edge should_retry_or_end; an exception
\* out of _executor.execute leaves the node, graph.invoke and, logged and
\* raised again, execute_with_retry
ExecuteNode ==
    /\ pc = "execute"
    /\ \E outcome \in DbOutcomes :
       \E produced \in IF outcome = "ok" THEN RunRowCounts ELSE {0} :
        IF Propagates(outcome)
        THEN /\ calls' = Append(calls, [call |-> "execute", attempt |-> attempt_number,
                                        raised |-> TRUE])
             /\ pc' = "raised"
             /\ UNCHANGED <<execution_result, final_success>>
        ELSE
       \E r \in {execute(generated_sql, DefaultRowLimit, filtered_schema, outcome,
                         produced)} :
       \E stored \in {[success |-> r.success, data |-> r.data, error_type |-> r.error_type,
                       error_message |-> r.error_message,
                       error_feedback |-> r.error_feedback,
                       row_count |-> IF r.success THEN r.row_count ELSE 0]} :
            /\ execution_result' = stored
            /\ final_success' = r.success
            /\ calls' = Append(calls, [call |-> "execute", attempt |-> attempt_number,
                                       schema |-> filtered_schema, sql |-> generated_sql,
                                       validation |-> validation_result, returned |-> r])
            /\ pc' = should_retry_or_end(stored, attempt_number, max_attempts, previous_sqls)
    /\ UNCHANGED <<agent_max_attempts, threshold, outside_run, filtered_schema, generated_sql,
                   validation_result, attempt_number, max_attempts, previous_sqls,
                   fallback_used, result, metrics>>

\* increment_attempt_node leaving the counter as it is
incremented_attempt_unchanged(attempt, success) == attempt

\* increment_attempt_node: the counter it leaves, untouched after a success
incremented_attempt(attempt, success) == IF success THEN attempt ELSE attempt + 1

\* increment_attempt_node
IncrementAttemptNode ==
    /\ pc = "increment_attempt"
    /\ attempt_number' = incremented_attempt(attempt_number, final_success)
    /\ pc' = EdgeFromIncrementAttempt
    /\ UNCHANGED <<agent_max_attempts, threshold, outside_run, filtered_schema, generated_sql,
                   validation_result, execution_result, max_attempts, previous_sqls,
                   final_success, fallback_used, result, metrics, calls>>

\* CorrectionMetrics.update with a last branch that counts a failure only
\* after a retry
update_failures_only_after_retries(m, r) ==
    LET counted == [m EXCEPT !.total_queries = @ + 1,
                             !.total_attempts = @ + r.attempts]
    IN  IF r.attempts = 1 /\ r.success
        THEN [counted EXCEPT !.first_attempt_success = @ + 1]
        ELSE IF r.attempts > 1 /\ r.success
             THEN [counted EXCEPT !.corrected_success = @ + 1]
        ELSE IF r.attempts > 1
             THEN [counted EXCEPT !.final_failures = @ + 1]
        ELSE counted

\* CorrectionMetrics.update
update(m, r) ==
    LET counted == [m EXCEPT !.total_queries = @ + 1,
                             !.total_attempts = @ + r.attempts]
    IN  IF r.attempts = 1 /\ r.success
        THEN [counted EXCEPT !.first_attempt_success = @ + 1]
        ELSE IF r.attempts > 1 /\ r.success
             THEN [counted EXCEPT !.corrected_success = @ + 1]
        ELSE [counted EXCEPT !.final_failures = @ + 1]

\* execute_with_retry after graph.invoke: the result record and the metrics
Return ==
    /\ pc = "END"
    /\ \E r \in {[final_sql |-> generated_sql, success |-> final_success,
                  attempts |-> attempt_number, execution_result |-> execution_result,
                  validation_issues |-> Get(validation_result, "issues", << >>),
                  used_fallback |-> fallback_used]} :
           /\ result' = r
           /\ metrics' = update(metrics, r)
    /\ pc' = "returned"
    /\ UNCHANGED <<agent_max_attempts, threshold, outside_run, state_vars, calls>>

Next ==
    \/ Invoke
    \/ SchemaLinkNode
    \/ GenerateSqlNode
    \/ CriticNode
    \/ ExecuteNode
    \/ IncrementAttemptNode
    \/ Return

Spec == Init /\ [][Next]_vars

\* graph.invoke runs the workflow node after node until END
FairSpec == Spec /\ WF_vars(Next)

\* how the provider capitalised a message
CaseForms == {"lower", "upper", "capitalized"}

\* the exceptions of the database call: the lower-cased text of str(error)
\* and the capitalisation it came in
Errors == [text : ClassifierMessages, case : CaseForms]

\* str(error).lower()
LowerMessage(e) == e.text

\* the database call of ExecutorAgent.execute raises
Raise ==
    /\ \E e \in Errors : error' = e
    /\ category' = "none"
    /\ UNCHANGED <<agent_max_attempts, threshold, module_globals, direct_calls, threads, critic_call,
                   critic_result, pc, state_vars,
                   result, metrics, calls>>

\* error_category = self.classifier.classify(e)
ClassifyError ==
    /\ error # EmptyDict
    /\ category = "none"
    /\ category' = classify(LowerMessage(error))
    /\ UNCHANGED <<agent_max_attempts, threshold, module_globals, direct_calls, threads, critic_call,
                   critic_result, pc, state_vars,
                   result, metrics, calls, error>>

\* an ExecutorAgent with its ErrorClassifier
ClassifierInit ==
    /\ Init
    /\ agent_max_attempts = DefaultMaxAttempts
    /\ threshold = DefaultThreshold

ClassifierNext ==
    \/ Raise
    \/ ClassifyError

\* the classifier applied to one exception after another
ClassifierSpec == ClassifierInit /\ [][ClassifierNext]_vars

\* _schema_linker.link_schema raises: schema_link_node and graph.invoke raise,
\* execute_with_retry logs the exception and raises it again
SchemaLinkRaises ==
    /\ pc = "schema_link"
    /\ calls' = Append(calls, [call |-> "link_schema", attempt |-> attempt_number,
                               raised |-> TRUE])
    /\ pc' = "raised"
    /\ UNCHANGED <<agent_max_attempts, threshold, outside_run, state_vars, result, metrics>>

\* _sql_generator.generate or generate_with_correction raises
GenerateRaises ==
    /\ pc = "generate_sql"
    /\ GenerateCall(attempt_number) # "auto_fix_columns"
    /\ calls' = Append(calls, [call |-> GenerateCall(attempt_number),
                               attempt |-> attempt_number, raised |-> TRUE])
    /\ pc' = "raised"
    /\ UNCHANGED <<agent_max_attempts, threshold, outside_run, state_vars, result, metrics>>

\* a CorrectionAgent with the default critic and one to three attempts
RaisingInit ==
    /\ Init
    /\ agent_max_attempts \in 1..DefaultMaxAttempts
    /\ threshold = DefaultThreshold

RaisingNext ==
    \/ Next
    \/ SchemaLinkRaises
    \/ GenerateRaises

\* a run whose schema linker and generator may raise
RaisingSpec == RaisingInit /\ [][RaisingNext]_vars

\* CriticAgent(confidence_threshold).validate(generated_sql, filtered_schema)
\* is called
CallValidate ==
    /\ \E sql \in CriticTexts, schema \in CriticSchemas, thr \in Thresholds :
           critic_call' = [generated_sql |-> sql, filtered_schema |-> schema,
                           threshold |-> thr]
    /\ critic_result' = EmptyDict
    /\ UNCHANGED <<agent_max_attempts, threshold, module_globals, direct_calls, threads, error, category,
                   pc, state_vars, result, metrics, calls>>

\* the call returns its ValidationResult
ValidateReturns ==
    /\ critic_call # EmptyDict
    /\ critic_result = EmptyDict
    /\ critic_result' = validate(critic_call.generated_sql, critic_call.filtered_schema,
                                 critic_call.threshold)
    /\ UNCHANGED <<agent_max_attempts, threshold, module_globals, direct_calls, threads, error, category,
                   pc, state_vars, result, metrics, calls, critic_call>>

CriticInit ==
    /\ Init
    /\ agent_max_attempts = DefaultMaxAttempts
    /\ threshold = DefaultThreshold

CriticNext ==
    \/ CallValidate
    \/ ValidateReturns

\* CriticAgent.validate applied to one text and schema context after another
CriticSpec == CriticInit /\ [][CriticNext]_vars

\* CorrectionAgent.__init__ of a second CorrectionAgent, constructed with its
\* own schema linker, generator, critic and executor: its call of
\* create_self_correction_graph assigns the module-level references
ConstructOther ==
    /\ _critic.agent = 1
    /\ _schema_linker' = [agent |-> 2]
    /\ _sql_generator' = [agent |-> 2]
    /\ \E other \in Thresholds : _critic' = [agent |-> 2, threshold |-> other]
    /\ _executor' = [agent |-> 2]
    /\ UNCHANGED <<agent_max_attempts, threshold, direct_calls, threads, error, category,
                   critic_call, critic_result, pc, state_vars, result,
                   metrics, calls>>

\* the texts ExecutorAgent.execute is given: with and without a LIMIT of
\* their own, with a final semicolon, with white space around them
SqlNameSemicolon == <<"SELECT", "name", "FROM", "products", ";">>
SqlNameLimitLower == <<Space, "select", "name", "from", "products", "limit", "100", Space>>
ExecutorTexts == {SqlName, SqlIdLimit, SqlNameSemicolon, SqlNameLimitLower}

\* the first call of ExecutorAgent.execute on a new agent; the database will
\* answer `outcome`, and the query would produce `produced` rows without a
\* limit
CallExecute ==
    /\ executor_metrics.total_queries = 0
    /\ \E sql \in ExecutorTexts, row_limit \in RowLimits, outcome \in DbOutcomes,
          produced \in RowCounts :
           executor_call' = [sql |-> sql, row_limit |-> row_limit, schema |-> SchemaProducts,
                             outcome |-> outcome, produced |-> produced]
    /\ executor_result' = EmptyDict
    /\ UNCHANGED <<agent_max_attempts, threshold, module_globals, threads, error, category,
                   critic_call, critic_result, repair_call, repair_result,
                   pc, state_vars, result, metrics, calls, executor_metrics>>

\* the call returns its ExecutionResult, execution_time_ms after it began,
\* and has updated the agent's metrics with it
ExecuteReturns ==
    /\ executor_call # EmptyDict
    /\ executor_result = EmptyDict
    /\ \E execution_time_ms \in Times :
       \E r \in {execute(executor_call.sql, executor_call.row_limit,
                         executor_call.schema, executor_call.outcome,
                         executor_call.produced)} :
           /\ executor_result' = r
           /\ executor_metrics' = ExecutionMetrics_update(executor_metrics, r.success,
                                                          r.error_type, execution_time_ms)
    /\ UNCHANGED <<agent_max_attempts, threshold, module_globals, threads, error, category,
                   critic_call, critic_result, repair_call, repair_result,
                   pc, state_vars, result, metrics, calls, executor_call>>

ExecutorInit ==
    /\ Init
    /\ agent_max_attempts = DefaultMaxAttempts
    /\ threshold = DefaultThreshold

ExecutorNext ==
    \/ CallExecute
    \/ ExecuteReturns

\* ExecutorAgent.execute applied to one statement or another
ExecutorSpec == ExecutorInit /\ [][ExecutorNext]_vars

\* a later call of ExecutorAgent.execute on the same agent, after the call
\* before it has returned
CallExecuteAgain ==
    /\ executor_result # EmptyDict
    /\ executor_metrics.total_queries < MaxCalls
    /\ \E outcome \in DbOutcomes :
           executor_call' = [sql |-> SqlName, row_limit |-> DefaultRowLimit,
                             schema |-> SchemaProducts, outcome |-> outcome,
                             produced |-> 1]
    /\ executor_result' = EmptyDict
    /\ UNCHANGED <<agent_max_attempts, threshold, module_globals, threads, error, category,
                   critic_call, critic_result, repair_call, repair_result,
                   pc, state_vars, result, metrics, calls, executor_metrics>>

MetricsNext ==
    \/ CallExecute
    \/ ExecuteReturns
    \/ CallExecuteAgain

\* a sequence of calls of ExecutorAgent.execute on one agent
MetricsSpec == ExecutorInit /\ [][MetricsNext]_vars

\* what SchemaLinker.link_schema answers for a database whose table has a
\* quoted column name
QuotedSchemas == {SchemaQuoted, SchemaProducts}

\* schema_link_node against that database
SchemaLinkQuoted ==
    /\ pc = "schema_link"
    /\ \E schema \in QuotedSchemas :
        /\ filtered_schema' = schema
        /\ calls' = Append(calls, [call |-> "link_schema", attempt |-> attempt_number,
                                   returned |-> schema])
    /\ pc' = EdgeFromSchemaLink
    /\ UNCHANGED <<agent_max_attempts, threshold, outside_run, generated_sql, validation_result,
                   execution_result, attempt_number, max_attempts, previous_sqls,
                   final_success, fallback_used, result, metrics>>

QuotedInit ==
    /\ Init
    /\ agent_max_attempts \in 1..2
    /\ threshold = DefaultThreshold

QuotedNext ==
    \/ Invoke
    \/ SchemaLinkQuoted
    \/ GenerateSqlNode
    \/ CriticNode
    \/ ExecuteNode
    \/ IncrementAttemptNode
    \/ Return

\* a run of the workflow against that database
QuotedSpec == QuotedInit /\ [][QuotedNext]_vars

\* the texts and schema contexts auto_fix_columns is applied to
RepairTexts ==
    CriticTexts \cup {SqlQualified, SqlAlias, SqlQualifiedTypo, SqlQualifiedNm, SqlAliasNm,
                      SqlNamTwice}
RepairSchemas == CriticSchemas \cup {SchemaAudit}

\* a call of auto_fix_columns
CallAutoFix ==
    /\ \E sql \in RepairTexts, schema \in RepairSchemas :
           repair_call' = [sql |-> sql, schema |-> schema]
    /\ repair_result' = EmptyDict
    /\ UNCHANGED <<agent_max_attempts, threshold, module_globals, threads, error, category,
                   critic_call, critic_result, executor_call, executor_result,
                   executor_metrics,
                   pc, state_vars, result, metrics, calls>>

\* the call returns the repaired text
AutoFixReturns ==
    /\ repair_call # EmptyDict
    /\ repair_result = EmptyDict
    /\ repair_result' = [once |-> auto_fix_columns(repair_call.sql, repair_call.schema)]
    /\ UNCHANGED <<agent_max_attempts, threshold, module_globals, threads, error, category,
                   critic_call, critic_result, executor_call, executor_result,
                   executor_metrics,
                   pc, state_vars, result, metrics, calls, repair_call>>

\* auto_fix_columns is called again on the text it returned
AutoFixAgain ==
    /\ DOMAIN repair_result = {"once"}
    /\ repair_result' = [once |-> repair_result.once,
                         twice |-> auto_fix_columns(repair_result.once, repair_call.schema)]
    /\ UNCHANGED <<agent_max_attempts, threshold, module_globals, threads, error, category,
                   critic_call, critic_result, executor_call, executor_result,
                   executor_metrics,
                   pc, state_vars, result, metrics, calls, repair_call>>

RepairInit ==
    /\ Init
    /\ agent_max_attempts = DefaultMaxAttempts
    /\ threshold = DefaultThreshold

RepairNext ==
    \/ CallAutoFix
    \/ AutoFixReturns
    \/ AutoFixAgain

\* auto_fix_columns applied to one text and schema context after another,
\* and to its own result
RepairSpec == RepairInit /\ [][RepairNext]_vars

\* the first CorrectionAgent, with at most one retry
TwoAgentsInit ==
    /\ Init
    /\ agent_max_attempts \in 1..2

TwoAgentsNext ==
    \/ Next
    \/ ConstructOther

\* a run of the first CorrectionAgent, a second one being constructed before
\* or during the run
TwoAgentsSpec == TwoAgentsInit /\ [][TwoAgentsNext]_vars

\* the outcome counters of the metrics
OutcomeCounters == {"first_attempt_success", "corrected_success", "final_failures"}

\* the outcome counter a completed run belongs to
OutcomeOf(r) ==
    IF r.success /\ r.attempts = 1 THEN "first_attempt_success"
    ELSE IF r.success /\ r.attempts > 1 THEN "corrected_success"
    ELSE "final_failures"

\* the results a run of the agent can complete with
RunResults ==
    [success : BOOLEAN, attempts : 1..Max(1, agent_max_attempts)]

\* the counter a thread inside CorrectionMetrics.update is at: the statements
\* self.total_queries += 1, self.total_attempts += result.attempts and the
\* += 1 of the branch taken
CounterAt(th) ==
    CASE th.line = 1 -> "total_queries"
      [] th.line = 2 -> "total_attempts"
      [] th.line = 3 -> OutcomeOf(th)

AmountAt(th) == IF th.line = 2 THEN th.attempts ELSE 1

\* graph.invoke of a thread returns and the thread calls self.metrics.update
RunCompletes(t) ==
    /\ threads[t].pc = "running"
    /\ \E r \in RunResults :
           threads' = [threads EXCEPT ![t] = [pc |-> "update", line |-> 1, phase |-> "load",
                                              success |-> r.success, attempts |-> r.attempts,
                                              loaded |-> 0]]
    /\ UNCHANGED <<agent_max_attempts, threshold, module_globals, direct_calls, error, category,
                   critic_call, critic_result, pc, state_vars, result,
                   metrics, calls>>

\* the read of an augmented assignment: the attribute is loaded
LoadCounter(t) ==
    /\ threads[t].pc = "update"
    /\ threads[t].phase = "load"
    /\ threads' = [threads EXCEPT ![t].loaded = metrics[CounterAt(threads[t])],
                                  ![t].phase = "store"]
    /\ UNCHANGED <<agent_max_attempts, threshold, module_globals, direct_calls, error, category,
                   critic_call, critic_result, pc, state_vars, result,
                   metrics, calls>>

\* the write of an augmented assignment: the sum is stored into the attribute
StoreCounter(t) ==
    /\ threads[t].pc = "update"
    /\ threads[t].phase = "store"
    /\ metrics' = [metrics EXCEPT ![CounterAt(threads[t])] =
                                      threads[t].loaded + AmountAt(threads[t])]
    /\ threads' = [threads EXCEPT ![t] =
                       IF threads[t].line = 3
                       THEN [@ EXCEPT !.pc = "done"]
                       ELSE [@ EXCEPT !.line = @ + 1, !.phase = "load"]]
    /\ UNCHANGED <<agent_max_attempts, threshold, module_globals, direct_calls, error, category,
                   critic_call, critic_result, pc, state_vars, result,
                   calls>>

\* a CorrectionAgent with the default critic, shared by the threads
ConcurrentInit ==
    /\ Init
    /\ threshold = DefaultThreshold

ConcurrentNext ==
    \E t \in Threads :
        \/ RunCompletes(t)
        \/ LoadCounter(t)
        \/ StoreCounter(t)

\* runs of one CorrectionAgent that complete on several threads: nothing in
\* update or in execute_with_retry orders the loads and stores of two threads
ConcurrentSpec == ConcurrentInit /\ [][ConcurrentNext]_vars

\* execute_with_retry called again on the same CorrectionAgent after the
\* previous call returned: a fresh initial_state, the metrics carried over
InvokeAgain ==
    /\ pc = "returned"
    /\ metrics.total_queries < MaxRuns
    /\ filtered_schema' = EmptyDict
    /\ generated_sql' = << >>
    /\ validation_result' = EmptyDict
    /\ execution_result' = EmptyDict
    /\ attempt_number' = 1
    /\ max_attempts' = agent_max_attempts
    /\ previous_sqls' = << >>
    /\ final_success' = FALSE
    /\ fallback_used' = FALSE
    /\ pc' = "schema_link"
    /\ calls' = << >>
    /\ UNCHANGED <<agent_max_attempts, threshold, outside_run, result, metrics>>

\* a CorrectionAgent with the default critic and at most one retry
SeriesInit ==
    /\ Init
    /\ agent_max_attempts \in 1..2
    /\ threshold = DefaultThreshold

SeriesNext ==
    \/ Next
    \/ InvokeAgain

\* a sequential series of runs on one CorrectionAgent
SeriesSpec == SeriesInit /\ [][SeriesNext]_vars

\* ------------------------------------------------------------------------
\* Properties
\* ------------------------------------------------------------------------

\* the producer calls of generate_sql_node, one for each Generate step
GenerateCalls ==
    SelectSeq(calls, LAMBDA c : c.call \in {"generate", "auto_fix_columns",
                                            "generate_with_correction"})

\* a destructive keyword occurs in the text, in either case, anywhere
Destructive(sql) == \E i \in DOMAIN sql : KeywordsWithin(Upper(sql[i])) # {}

\* the i-th generated text equals the one before it after normalization
DuplicateAt(i) ==
    /\ i \in 2..Len(previous_sqls)
    /\ normalize_sql(previous_sqls[i]) = normalize_sql(previous_sqls[i - 1])

\* the text of attempt a was passed to the execution service
Executed(a) == \E k \in DOMAIN calls : calls[k].call = "execute" /\ calls[k].attempt = a

\* the run is over
Ended == pc \in {"END", "returned"}

\* the last Execute step failed with a non-retryable error
FatalFailure ==
    /\ "success" \in DOMAIN execution_result
    /\ ~execution_result.success
    /\ execution_result.error_type \in NON_RETRYABLE_ERRORS

\* C1, the bound: a run that has returned went through at most max_attempts
\* Generate/Validate/[Execute] cycles
C1_CyclesWithinMaxAttempts ==
    pc = "returned" => Len(GenerateCalls) <= max_attempts

\* C1, termination: whatever the collaborators answer, a run that is left to
\* run comes to its end and returns (checked under FairSpec)
C1_Terminates == <>(pc = "returned")

\* C2: once a run has started, attempt_number never exceeds max_attempts and
\* generate_sql_node has run at most max_attempts times
C2_AttemptWithinMaxAttempts ==
    pc # "idle" => /\ attempt_number <= max_attempts
                   /\ Len(GenerateCalls) <= max_attempts

\* C3: no text holding a destructive keyword is ever passed to the execution
\* service
C3_NoDestructiveSqlExecuted ==
    \A k \in DOMAIN calls : calls[k].call = "execute" => ~Destructive(calls[k].sql)

\* an Execute step ran in a run in which an earlier Generate step produced a
\* destructive text
C3_Witness ==
    \E k \in DOMAIN calls :
        /\ calls[k].call = "execute"
        /\ \E j \in 1..(k - 1) :
            /\ calls[j].call \in {"generate", "auto_fix_columns", "generate_with_correction"}
            /\ Destructive(calls[j].returned)

\* C4: every call of the execution service passes the text the preceding
\* Validate step left in generated_sql, and the validation result that step
\* stored is the validation of that text, with is_valid true
C4_ExecuteOnlyValidatedSql ==
    \A k \in DOMAIN calls : calls[k].call = "execute" =>
        /\ k > 1
        /\ calls[k - 1].call = "validate"
        /\ calls[k - 1].attempt = calls[k].attempt
        /\ calls[k - 1].sql = calls[k].sql
        /\ calls[k - 1].returned = validate(calls[k].sql, calls[k].schema, threshold)
        /\ calls[k].validation = [is_valid |-> calls[k - 1].returned.is_valid,
                                  confidence |-> calls[k - 1].returned.confidence,
                                  issues |-> calls[k - 1].returned.issues]
        /\ calls[k].validation.is_valid

\* the execution service was called on attempt 2 with a text Auto-Repair
\* changed
C4_Witness ==
    \E k \in DOMAIN calls :
        /\ calls[k].call = "execute"
        /\ calls[k].attempt = 2
        /\ calls[k].sql # previous_sqls[1]

\* C5: a validation of a text with a safety-layer match returns confidence 0
\* and is_valid false, whatever the other layers find and whatever the
\* threshold
C5_SafetyMatchIsInvalid ==
    \A k \in DOMAIN calls :
        (calls[k].call = "validate" /\ _validate_safety(calls[k].sql) # << >>) =>
            /\ calls[k].returned.confidence = 0
            /\ ~calls[k].returned.is_valid

\* a text whose only issues are safety matches was validated with a threshold
\* of 0 or below
C5_Witness ==
    \E k \in DOMAIN calls :
        /\ calls[k].call = "validate"
        /\ threshold <= 0
        /\ _validate_safety(calls[k].sql) # << >>
        /\ _validate_syntax(calls[k].sql) = << >>
        /\ _validate_schema(calls[k].sql, calls[k].schema) = << >>
        /\ _validate_semantics(calls[k].sql) = << >>

\* C6: after an Execute step that failed with permission_denied or
\* connection_error the run is over as a failure: that call is the run's last
\* step and attempt_number is the attempt it was made on
C6_FatalErrorEndsRun ==
    FatalFailure =>
        /\ Ended
        /\ Last(calls).call = "execute"
        /\ Last(calls).attempt = attempt_number
        /\ ~final_success
        /\ pc = "returned" => (~result.success /\ result.attempts = attempt_number)

\* a run with three attempts allowed returned as a failure after a
\* non-retryable error on attempt 1
C6_Witness ==
    /\ pc = "returned"
    /\ FatalFailure
    /\ max_attempts = DefaultMaxAttempts
    /\ result.attempts = 1
    /\ ~result.success

\* C7 as stated: once two consecutive generated texts are equal after
\* normalization no further attempt is started, whether the second one was
\* executed or blocked by the Validator
C7_DuplicateEndsRun ==
    \A i \in 2..Len(previous_sqls) :
        DuplicateAt(i) => (i = Len(previous_sqls) /\ pc \in {"critic", "execute", "END", "returned"})

\* C7 as amended: a generated text equal after normalization to the one before
\* it ends the run once it has been executed; when the Validator blocked it,
\* the run ends there only with the attempts exhausted
C7_ExecutedDuplicateEndsRun ==
    \A i \in 2..Len(previous_sqls) :
        DuplicateAt(i) =>
            /\ Executed(i) => (i = Len(previous_sqls) /\ Ended)
            /\ (~Executed(i) /\ i = Len(previous_sqls) /\ Ended) => attempt_number >= max_attempts

\* the retry guard ended a run: the second of two equal texts failed at
\* execution with a retryable error and attempts remained
C7_Witness ==
    /\ pc = "END"
    /\ DuplicateAt(Len(previous_sqls))
    /\ Executed(Len(previous_sqls))
    /\ ~execution_result.success
    /\ execution_result.error_type \notin NON_RETRYABLE_ERRORS
    /\ attempt_number < max_attempts

\* C8: once the schema step has run, the schema provider has been called
\* exactly once, as the run's first call, filtered_schema holds what it
\* returned, and every Generate, Validate, Auto-Repair and Execute call was
\* made with that value
C8_SchemaLinkedOnce ==
    pc \notin {"idle", "schema_link"} =>
        /\ Len(CallsOf("link_schema")) = 1
        /\ calls[1].call = "link_schema"
        /\ filtered_schema = calls[1].returned
        /\ \A k \in 2..Len(calls) : calls[k].schema = calls[1].returned

\* the execution service was called on the third attempt of a run
C8_Witness ==
    \E k \in DOMAIN calls : calls[k].call = "execute" /\ calls[k].attempt = 3

\* C9: the k-th Generate step is the one of attempt k; attempt 1 calls
\* generate, attempt 2 calls no model and returns Auto-Repair of the first
\* text of the log, attempt 3 calls generate_with_correction; a run with
\* max_attempts = 3 makes at most two model calls
C9_GenerateIsAttemptIndexed ==
    /\ \A k \in DOMAIN GenerateCalls :
        /\ GenerateCalls[k].attempt = k
        /\ k = 1 => GenerateCalls[k].call = "generate"
        /\ k = 2 => /\ GenerateCalls[k].call = "auto_fix_columns"
                    /\ GenerateCalls[k].returned =
                         auto_fix_columns(previous_sqls[1], GenerateCalls[k].schema)
        /\ k = 3 => GenerateCalls[k].call = "generate_with_correction"
    /\ max_attempts = DefaultMaxAttempts => Len(ModelCalls) <= 2

\* a run with max_attempts = 3 returned after three attempts
C9_Witness ==
    /\ pc = "returned"
    /\ max_attempts = DefaultMaxAttempts
    /\ Len(GenerateCalls) = 3
    /\ Len(ModelCalls) = 2

\* C10: the prompt of a generate_with_correction call is built from the
\* attempt before it: from the issues of its validation when that blocked the
\* text, and otherwise from the error category and feedback of its execution
C10_PromptFromPrecedingAttempt ==
    \A k \in DOMAIN calls : calls[k].call = "generate_with_correction" =>
        \E v \in 1..(k - 1) :
            /\ calls[v].call = "validate"
            /\ calls[v].attempt = calls[k].attempt - 1
            /\ \A j \in (v + 1)..(k - 1) : calls[j].call # "validate"
            /\ calls[k].prompt.failed_sql = calls[v].sql
            /\ IF ~calls[v].returned.is_valid
               THEN /\ k = v + 1
                    /\ calls[k].prompt.source = "critic"
                    /\ calls[k].prompt.issues = calls[v].returned.issues
               ELSE /\ k = v + 2
                    /\ calls[v + 1].call = "execute"
                    /\ calls[v + 1].attempt = calls[k].attempt - 1
                    /\ ~calls[v + 1].returned.success
                    /\ calls[k].prompt.source = StrategyFor(calls[v + 1].returned.error_type)
                    /\ calls[k].prompt.error_type = calls[v + 1].returned.error_type
                    /\ calls[k].prompt.error_feedback = calls[v + 1].returned.error_feedback

\* attempt 3 followed an attempt the Validator blocked, in a run whose first
\* attempt had failed at execution
C10_Witness ==
    \E k \in DOMAIN calls :
        /\ calls[k].call = "generate_with_correction"
        /\ calls[k].attempt = 3
        /\ calls[k].prompt.source = "critic"
        /\ Executed(1)

\* the run's last call was a call of the execution service that succeeded
LastExecuteSucceeded ==
    /\ CallsOf("execute") # << >>
    /\ Last(CallsOf("execute")).returned.success

\* C11 as stated: a run that returned success returns as final_sql the text
\* that was executed, that is the statement the database ran
C11_FinalSqlIsStatementRun ==
    (pc = "returned" /\ result.success) =>
        result.final_sql = Last(CallsOf("execute")).returned.sql_executed

\* C11 as amended: a successful call of the execution service is the run's
\* last step and sets final_success at once; the result returned has success
\* exactly when the run's last Execute step succeeded, and then attempts is the
\* attempt of that step and final_sql the text passed to the execution service
C11_SuccessIsFinal ==
    /\ \A k \in DOMAIN calls :
        (calls[k].call = "execute" /\ calls[k].returned.success) =>
            /\ k = Len(calls)
            /\ final_success
            /\ Ended
            /\ attempt_number = calls[k].attempt
    /\ pc = "returned" =>
        /\ result.success <=> LastExecuteSucceeded
        /\ result.success => /\ result.attempts = Last(calls).attempt
                             /\ result.final_sql = Last(calls).sql

\* a run returned success on its second attempt
C11_Witness ==
    /\ pc = "returned"
    /\ result.success
    /\ result.attempts = 2

\* C12: each completed run raises exactly one of first_attempt_success
\* (success and attempts = 1), corrected_success (success and attempts > 1)
\* and final_failures by one and leaves the other two alone, and after any
\* sequential series of completed runs the three counters add up to
\* total_queries
C12_EachRunCountedOnce ==
    /\ [][(pc = "END" /\ pc' = "returned") =>
            /\ metrics'.total_queries = metrics.total_queries + 1
            /\ \A c \in OutcomeCounters :
                   metrics'[c] = metrics[c] + (IF c = OutcomeOf(result') THEN 1 ELSE 0)]_vars
    /\ [](metrics.first_attempt_success + metrics.corrected_success
             + metrics.final_failures = metrics.total_queries)

\* a series of three completed runs, one in each class
C12_Witness ==
    /\ pc = "returned"
    /\ metrics.total_queries = 3
    /\ metrics.first_attempt_success = 1
    /\ metrics.corrected_success = 1
    /\ metrics.final_failures = 1

\* the threads whose run belongs to an outcome counter
ThreadsCounted(c) == {t \in Threads : OutcomeOf(threads[t]) = c}

RECURSIVE SumOfAttempts(_)
SumOfAttempts(T) ==
    IF T = {} THEN 0
    ELSE LET t == CHOOSE x \in T : TRUE
         IN  threads[t].attempts + SumOfAttempts(T \ {t})

AllThreadsDone == \A t \in Threads : threads[t].pc = "done"

\* C13: once every thread has completed its run and left update,
\* total_queries has grown by the number of runs, total_attempts by the sum
\* of their attempts and each outcome counter by the number of runs of its
\* class: no interleaving of the increments loses an update
C13_NoUpdateLost ==
    AllThreadsDone =>
        /\ metrics.total_queries = MaxThreads
        /\ metrics.total_attempts = SumOfAttempts(Threads)
        /\ \A c \in OutcomeCounters : metrics[c] = Cardinality(ThreadsCounted(c))

\* C14: a run of the first CorrectionAgent uses only the collaborators that
\* agent was constructed with: the node about to run finds the agent's own
\* schema linker, generator, critic or executor in the module-level
\* reference, and every validation of the run is the verdict of the agent's
\* own critic
C14_OwnCollaboratorsOnly ==
    /\ pc = "schema_link" => _schema_linker.agent = 1
    /\ pc = "generate_sql" => _sql_generator.agent = 1
    /\ pc = "critic" => _critic = [agent |-> 1, threshold |-> threshold]
    /\ pc = "execute" => _executor.agent = 1
    /\ \A k \in DOMAIN calls :
           calls[k].call = "validate" =>
               calls[k].returned = validate(calls[k].sql, calls[k].schema, threshold)

\* the categories with patterns, highest priority first
PriorityOrder ==
    <<"timeout", "connection_error", "permission_denied", "column_not_found",
      "table_not_found", "aggregation_error", "join_error", "type_mismatch", "syntax_error">>

\* the patterns of a category
PatternsOf(c) ==
    CASE c = "timeout" -> {"canceling statement due to statement timeout", "query_timeout",
                           "execution timeout", "statement timeout"}
      [] c = "connection_error" -> {"could not connect to server", "connection refused",
                                    "connection reset", "connection timed out",
                                    "server closed the connection"}
      [] c = "permission_denied" -> {"permission denied", "must be owner of", "access denied"}
      [] c = "column_not_found" -> {"column .* does not exist",
                                    "column .* of relation .* does not exist"}
      [] c = "table_not_found" -> {"relation .* does not exist", "table .* does not exist"}
      [] c = "aggregation_error" -> {"must appear in the group by clause",
                                     "aggregate functions are not allowed",
                                     "column .* must appear in the group by"}
      [] c = "join_error" -> {"column reference .* is ambiguous", "missing from-clause entry",
                              "ambiguous column"}
      [] c = "type_mismatch" -> {"cannot cast type", "invalid input syntax for type",
                                 "operator does not exist", "type mismatch"}
      [] c = "syntax_error" -> {"syntax error at or near", "syntax error", "invalid syntax"}

\* the ranks of the categories one of whose patterns occurs in the message
RanksMatching(error_msg) ==
    UNION {{i \in DOMAIN PriorityOrder :
               \E pattern \in PatternsOf(PriorityOrder[i]) : Search(PatternWords(pattern), w)} :
           w \in {WordsOf(error_msg)}}

\* the message contains the text
Contains(error_msg, text) == Search(PatternWords(text), WordsOf(error_msg))

Classified == error # EmptyDict /\ category # "none"

\* C15: the category returned for an exception is the highest-priority
\* category one of whose patterns occurs in the lower-cased message, in the
\* order timeout, connection error, permission denied, column not found,
\* table not found, aggregation error, join error, type mismatch, syntax
\* error, and it is unknown exactly when no pattern occurs; nothing but the
\* lower-cased message decides it
C15_HighestPriorityCategory ==
    Classified =>
        \E ranks \in {RanksMatching(LowerMessage(error))} :
            /\ category = "unknown" <=> ranks = {}
            /\ ranks # {} =>
                   \E i \in ranks : /\ category = PriorityOrder[i]
                                     /\ \A j \in ranks : i <= j

\* an upper-case message with a syntax error pattern and a column pattern
\* was classified
C15_Witness ==
    /\ Classified
    /\ error.case = "upper"
    /\ {4, 9} \subseteq RanksMatching(LowerMessage(error))
    /\ category = "column_not_found"

\* C16 as stated: a message with both "syntax error" and "does not exist" is
\* classified column_not_found or table_not_found
C16_BothTextsMeanMissingObject ==
    (/\ Classified
     /\ Contains(LowerMessage(error), "syntax error")
     /\ Search(<<"does", " ", "not", " ", "exist">>, WordsOf(LowerMessage(error))))
        => category \in {"column_not_found", "table_not_found"}

\* C16: a message that contains "syntax error" and matches a column or table
\* pattern ("column ... does not exist", "relation ... does not exist",
\* "table ... does not exist" within one line) and no timeout, connection or
\* permission pattern is classified column_not_found or table_not_found; a
\* message with "syntax error" and "does not exist" that matches none of
\* these patterns is left to the lower-priority checks and is syntax_error
\* unless an aggregation, join or type pattern occurs in it
C16_MissingObjectOutranksSyntax ==
    (Classified /\ Contains(LowerMessage(error), "syntax error")) =>
        \E ranks \in {RanksMatching(LowerMessage(error))} :
            /\ (ranks \cap {1, 2, 3} = {} /\ ranks \cap {4, 5} # {}) =>
                   category \in {"column_not_found", "table_not_found"}
            /\ (ranks \cap (1..5) = {}) =>
                   (category = "syntax_error" <=> ranks \cap {6, 7, 8} = {})

\* a message with "syntax error" and a relation that does not exist was
\* classified table_not_found
C16_Witness ==
    /\ Classified
    /\ Contains(LowerMessage(error), "syntax error")
    /\ Contains(LowerMessage(error), "relation .* does not exist")
    /\ category = "table_not_found"

\* the k-th call is an Execute step that failed with attempts remaining and
\* on a text that does not repeat the one before it
RetryDependsOnCategory(k) ==
    /\ calls[k].call = "execute"
    /\ ~calls[k].returned.success
    /\ calls[k].attempt < max_attempts
    /\ ~DuplicateAt(calls[k].attempt)

\* the run went on after its k-th call
RetriedAfter(k) == k < Len(calls) \/ ~Ended

\* C17: permission_denied and connection_error are the non-retryable
\* categories, the other eight of the ten are the retryable ones, the two
\* sets are disjoint and cover the categories; after a failed Execute step
\* with attempts remaining and the retry guard not hit, the run retries
\* exactly when the category is a retryable one
C17_RetryableCategoriesRetry ==
    /\ Cardinality(ErrorCategory) = 10
    /\ NON_RETRYABLE_ERRORS = {"permission_denied", "connection_error"}
    /\ NON_RETRYABLE_ERRORS \cap RETRYABLE_ERRORS = {}
    /\ NON_RETRYABLE_ERRORS \cup RETRYABLE_ERRORS = ErrorCategory
    /\ {"timeout", "unknown"} \subseteq RETRYABLE_ERRORS
    /\ \A k \in DOMAIN calls :
           RetryDependsOnCategory(k) =>
               /\ calls[k].returned.error_type \in ErrorCategory
               /\ RetriedAfter(k) <=> calls[k].returned.error_type \in RETRYABLE_ERRORS

\* a run retried after a timeout and after an unknown error, and another
\* Execute step of it ended it with a non-retryable error, attempts remaining
C17_Witness ==
    /\ pc = "END"
    /\ attempt_number < max_attempts
    /\ RetryDependsOnCategory(Len(calls))
    /\ Last(calls).returned.error_type = "connection_error"
    /\ \E k \in DOMAIN calls :
           /\ RetryDependsOnCategory(k)
           /\ calls[k].returned.error_type \in {"timeout", "unknown"}
           /\ RetriedAfter(k)

\* a call of CriticAgent.validate has returned
Validated == critic_call # EmptyDict /\ critic_result # EmptyDict

\* C18: the confidence CriticAgent.validate returns lies in [0, 1] (0 to 10
\* tenths) for every text, every schema context, the empty one included, and
\* however many issues the layers find
C18_ConfidenceInUnitInterval ==
    Validated => (critic_result.confidence >= 0 /\ critic_result.confidence <= 10)

\* a text with three unknown columns was validated: the penalties alone
\* would leave less than 0
C18_Witness ==
    /\ Validated
    /\ Len(_validate_schema(critic_call.generated_sql, critic_call.filtered_schema)) = 3
    /\ critic_result.confidence = 0

\* C19: the result carries the issues of all four layers, in layer order;
\* its confidence is 1.0, less 0.6 if the syntax layer found an issue, less
\* 0.4 for each schema issue, set to 0.0 if the safety layer found an issue,
\* less 0.2 for each semantic issue, clamped to [0, 1]; is_valid holds
\* exactly when the confidence is at least the threshold and above 0
C19_ConfidenceByLayer ==
    Validated =>
        \E syntax \in {_validate_syntax(critic_call.generated_sql)},
           schema \in {_validate_schema(critic_call.generated_sql, critic_call.filtered_schema)},
           safety \in {_validate_safety(critic_call.generated_sql)},
           semantic \in {_validate_semantics(critic_call.generated_sql)} :
            \E unclamped \in {(IF safety # << >> THEN 0
                                ELSE 10 - (IF syntax # << >> THEN 6 ELSE 0) - 4 * Len(schema))
                               - 2 * Len(semantic)} :
                /\ critic_result.issues = syntax \o schema \o safety \o semantic
                /\ critic_result.confidence =
                       (IF unclamped < 0 THEN 0 ELSE IF unclamped > 10 THEN 10 ELSE unclamped)
                /\ critic_result.is_valid <=>
                       (/\ critic_result.confidence >= critic_call.threshold
                        /\ critic_result.confidence > 0)

\* a text with two semantic issues and no other was validated against the
\* threshold 0.5 and is valid with confidence 0.6
C19_Witness ==
    /\ Validated
    /\ Len(_validate_semantics(critic_call.generated_sql)) = 2
    /\ Len(critic_result.issues) = 2
    /\ critic_call.threshold = 5
    /\ critic_result.confidence = 6
    /\ critic_result.is_valid

\* the k-th call raised
RaisedAt(k) == "raised" \in DOMAIN calls[k]

AutoRepairUsed ==
    \/ \E k \in DOMAIN calls : calls[k].call = "auto_fix_columns"
    \/ \E k \in DOMAIN calls : \E j \in DOMAIN calls :
           /\ k < j
           /\ calls[k].call = "validate" /\ calls[j].call = "validate"
           /\ calls[k].attempt = calls[j].attempt

\* C21 as stated: used_fallback of the result is true in every run in which
\* Auto-Repair produced or rewrote the SQL and false in every other run
C21_FallbackFlagTracksRepair ==
    pc = "returned" => (result.used_fallback <=> AutoRepairUsed)

\* C21: used_fallback of the result is false in every run, the runs in which
\* Auto-Repair produced the SQL of attempt 2 included: no step of the
\* workflow sets the fallback-used flag of the state
C21_FallbackFlagNeverSet ==
    /\ pc # "idle" => ~fallback_used
    /\ pc = "returned" => ~result.used_fallback

\* a run returned after Auto-Repair produced the SQL of attempt 2
C21_Witness ==
    /\ pc = "returned"
    /\ AutoRepairUsed
    /\ result.attempts >= 2

\* attempt 1 produced `SELECT id FROM products LIMIT 100` against the schema
\* of products, and that attempt failed: blocked by the Validator or failed
\* in execution
IdAttemptFailed ==
    /\ Len(GenerateCalls) >= 2
    /\ GenerateCalls[1].returned = SqlIdLimit
    /\ GenerateCalls[1].schema = SchemaProducts

\* C22 as stated: when attempt 1 produces `SELECT id FROM products LIMIT 100`
\* and fails on the missing column id, Auto-Repair at attempt 2 substitutes
\* product_id for id, and a run that ends there has attempts = 2,
\* success = true and was_corrected = true
C22_IdRepairedToProductId ==
    IdAttemptFailed =>
        /\ GenerateCalls[2].call = "auto_fix_columns"
        /\ GenerateCalls[2].returned =
               <<"SELECT", "product_id", "FROM", "products", "LIMIT", "100">>
        /\ (pc = "returned" /\ Len(GenerateCalls) = 2) =>
               (result.attempts = 2 /\ result.success)

\* every table and column the text refers to is in the schema context: the
\* Validator's schema layer has nothing to report
AlreadyCorrect(sql, schema) == _validate_schema(sql, schema) = << >>

\* C23 as stated: auto_fix_columns applied to its own result returns it
\* unchanged, and applied to a text whose tables and columns all exist it
\* returns the text unchanged
C23_RepairIdempotent ==
    /\ "twice" \in DOMAIN repair_result => repair_result.twice = repair_result.once
    /\ ("once" \in DOMAIN repair_result
            /\ AlreadyCorrect(repair_call.sql, repair_call.schema)) =>
           repair_result.once = repair_call.sql

\* a call of ExecutorAgent.execute has returned
ExecuteReturned == executor_call # EmptyDict /\ executor_result # EmptyDict

\* C24: a successful ExecutorAgent.execute returns row_count = len(data)
\* and at most row_limit rows, whatever the number of rows the query would
\* produce and whatever LIMIT the text carries itself
C24_RowsCapped ==
    (ExecuteReturned /\ executor_result.success) =>
        /\ executor_result.row_count = Len(executor_result.data)
        /\ executor_result.row_count <= executor_call.row_limit
        /\ executor_result.row_count <= executor_call.produced

\* a successful call on a text with a LIMIT of its own above the cap, whose
\* query produces more rows than the cap: the result holds exactly the cap
C24_Witness ==
    /\ ExecuteReturned
    /\ executor_result.success
    /\ executor_call.sql = SqlIdLimit
    /\ executor_call.row_limit = 2
    /\ executor_call.produced > 2
    /\ executor_result.sql_executed = SqlIdLimit
    /\ executor_result.row_count = 2

\* C25 as stated: on success and on failure alike, sql_executed of the
\* ExecutionResult is the statement that was sent to the database
C25_SqlExecutedIsStatementSent ==
    (ExecuteReturned /\ executor_result.sent # <<"None">>) =>
        executor_result.sql_executed = executor_result.sent

\* the issue of the semantic layer for tables listed without a join
CartesianWarning ==
    <<"Multiple tables detected but no JOIN found (possible cartesian product)">>

\* C26 as stated: for `SELECT * FROM products, orders` with both tables in
\* the schema context, validate reports exactly one issue, the
\* cartesian-product warning of the semantic layer, with confidence 0.8, and
\* the text is valid at the default threshold; both tables of the
\* comma-separated list count as referenced
C26_CartesianProductWarned ==
    (/\ Validated
     /\ critic_call.generated_sql = SqlCartesian
     /\ critic_call.filtered_schema = SchemaBoth) =>
        /\ _extract_table_names(critic_call.generated_sql) = {"products", "orders"}
        /\ critic_result.issues = <<CartesianWarning>>
        /\ critic_result.confidence = StartConfidence - SemanticPenalty
        /\ critic_call.threshold = DefaultThreshold => critic_result.is_valid

\* the tables a text names: the word after FROM or JOIN, and the word after
\* the comma of a FROM list
TablesListed(sql) ==
    UNION {{Lower(w[i]) : i \in {j \in 2..Len(w) :
                /\ IsWord(w[j])
                /\ \/ Upper(w[j - 1]) \in {"FROM", "JOIN"}
                   \/ w[j - 1] = "," /\ j >= 4 /\ Upper(w[j - 3]) = "FROM"}}
           : w \in {NoSpace(sql)}}

\* the columns a text refers to, each with its table: the table-qualified
\* references, and the one-word items of the select list of a query on one
\* table
ColumnsReferred(sql) ==
    UNION {{<<Lower(QualTable(w[i])), Lower(QualColumn(w[i]))>> :
                i \in {j \in DOMAIN w : IsQualified(w[j])}}
           \cup {<<t, Lower(w[i])>> :
                   t \in IF Cardinality(TablesListed(sql)) = 1 THEN TablesListed(sql) ELSE {},
                   i \in {j \in 2..Len(w) :
                            /\ \A k \in 1..j : Upper(w[k]) # "FROM"
                            /\ IsWord(w[j])
                            /\ Upper(w[j]) \notin {"SELECT", "AS", "DISTINCT"}
                            /\ Upper(w[j - 1]) # "AS"}}
           : w \in {NoSpace(sql)}}

\* the identifiers of a text that the schema context does not have: tables
\* absent from it, and columns absent from their table
MissingIdentifiers(sql, schema) ==
    (TablesListed(sql) \ DOMAIN schema)
    \cup {r[2] : r \in {c \in ColumnsReferred(sql) :
                          c[1] \in DOMAIN schema /\ c[2] \notin SeqToSet(schema[c[1]])}}

\* C27 as stated: a text that refers to a table absent from the schema
\* context, or to a column absent from its table, gets at least one issue
\* of the schema layer that names a missing identifier, and is invalid at
\* the default threshold (stated for the schema contexts that hold a table)
C27_MissingIdentifierReported ==
    (/\ Validated
     /\ critic_call.filtered_schema # EmptySchema
     /\ MissingIdentifiers(critic_call.generated_sql, critic_call.filtered_schema) # {}) =>
        /\ \E issue \in SeqToSet(_validate_schema(critic_call.generated_sql,
                                                 critic_call.filtered_schema)) :
               \E m \in MissingIdentifiers(critic_call.generated_sql,
                                           critic_call.filtered_schema) :
                   m \in SeqToSet(issue)
        /\ critic_call.threshold = DefaultThreshold => ~critic_result.is_valid

\* the Generate step of the current attempt has run
Generated == pc \in {"critic", "execute", "increment_attempt", "END", "returned"}

\* C28 as stated: in every state of a run the length of the previous-SQL log
\* equals attempt_number
C28_LogLengthIsAttemptNumber ==
    pc # "idle" => Len(previous_sqls) = attempt_number

\* C28: attempt_number is 1-based; the previous-SQL log has attempt_number
\* entries once the Generate step of the attempt has run and one entry fewer
\* before it (at the start of the run and between a Retry and its Generate);
\* the log only grows, by the text just generated and only in a Generate
\* step; attempt_number changes only in a Retry step, by exactly one
C28_LogTracksAttempts ==
    /\ [](pc # "idle" =>
            /\ attempt_number >= 1
            /\ Generated => Len(previous_sqls) = attempt_number
            /\ ~Generated => Len(previous_sqls) = attempt_number - 1)
    /\ [][pc # "idle" =>
            /\ pc = "generate_sql" => previous_sqls' = Append(previous_sqls, generated_sql')
            /\ pc # "generate_sql" => previous_sqls' = previous_sqls
            /\ pc = "increment_attempt" => attempt_number' = attempt_number + 1
            /\ pc # "increment_attempt" => attempt_number' = attempt_number]_vars

\* a run on its third attempt, after two Retry steps, with the Generate step
\* of that attempt still to come: two texts in the log
C28_Witness ==
    /\ pc = "generate_sql"
    /\ attempt_number = 3
    /\ Len(previous_sqls) = 2

\* C29: the Validate step follows every Generate step; after it a valid
\* text goes to Execute, an invalid one with attempt_number < max_attempts
\* goes to Retry, whatever else the state holds, and Retry increments the
\* attempt and goes to Generate; an invalid one with attempt_number >=
\* max_attempts ends the run, whose result has success = false
C29_RoutingAfterValidate ==
    /\ [][/\ pc = "generate_sql" => pc' = "critic"
          /\ pc = "critic" =>
                /\ validation_result'.is_valid => pc' = "execute"
                /\ (~validation_result'.is_valid /\ attempt_number < max_attempts) =>
                       pc' = "increment_attempt"
                /\ (~validation_result'.is_valid /\ attempt_number >= max_attempts) =>
                       (pc' = "END" /\ ~final_success')
          /\ pc = "increment_attempt" =>
                (pc' = "generate_sql" /\ attempt_number' = attempt_number + 1)]_vars
    /\ []((pc = "returned" /\ Last(calls).call = "validate") =>
              (~result.success /\ result.attempts >= max_attempts))

\* a run whose second text repeats the first, blocked by the Validator both
\* times, is sent to Retry again all the same
C29_Witness ==
    /\ pc = "increment_attempt"
    /\ attempt_number = 2
    /\ ~validation_result.is_valid
    /\ Len(previous_sqls) = 2
    /\ previous_sqls[1] = previous_sqls[2]
    /\ \A a \in 1..2 : ~Executed(a)

\* what critic_node stores of a ValidationResult
Stored(r) == [is_valid |-> r.is_valid, confidence |-> r.confidence, issues |-> r.issues]

\* the calls a step added to the history, of one kind
MadeInStep(before, after, kind) ==
    SelectSeq(SubSeq(after, Len(before) + 1, Len(after)), LAMBDA c : c.call = kind)

\* C30: one Validate step validates the generated text; when that first
\* result is invalid and one of its issues holds "does not exist" it applies
\* Auto-Repair exactly once, and otherwise not at all; when the repaired
\* text normalizes differently from the generated text, generated_sql
\* becomes the repaired text, which is validated, and that second result is
\* stored; otherwise generated_sql stays and the first result is stored.
\* So a step makes at most one repair and at most two validations
C30_OneRepairPerValidateStep ==
    [][pc = "critic" =>
        \E first \in {validate(generated_sql, filtered_schema, _critic.threshold)},
           repairs \in {MadeInStep(calls, calls', "repair")},
           validations \in {MadeInStep(calls, calls', "validate")} :
        \E trigger \in {/\ ~first.is_valid
                        /\ \E i \in DOMAIN first.issues :
                               MentionsDoesNotExist(first.issues[i])} :
            /\ Len(repairs) <= 1
            /\ Len(validations) \in 1..2
            /\ validations[1].sql = generated_sql
            /\ validations[1].returned = first
            /\ trigger <=> Len(repairs) = 1
            /\ trigger => /\ repairs[1].sql = generated_sql
                          /\ repairs[1].returned =
                                 auto_fix_columns(generated_sql, filtered_schema)
            /\ IF trigger /\ normalize_sql(repairs[1].returned) # normalize_sql(generated_sql)
               THEN /\ generated_sql' = repairs[1].returned
                    /\ Len(validations) = 2
                    /\ validations[2].sql = generated_sql'
                    /\ validations[2].returned =
                           validate(generated_sql', filtered_schema, _critic.threshold)
                    /\ validation_result' = Stored(validations[2].returned)
               ELSE /\ generated_sql' = generated_sql
                    /\ Len(validations) = 1
                    /\ validation_result' = Stored(first)]_vars

\* a Validate step found `SELECT nam FROM products` invalid with an issue
\* that holds "does not exist", repaired it to `SELECT name FROM products`,
\* validated that and stored the valid second result: the run goes on to
\* Execute with the repaired text
C30_Witness ==
    /\ pc = "execute"
    /\ attempt_number = 1
    /\ Len(calls) >= 3
    /\ calls[Len(calls) - 2].call = "validate"
    /\ ~calls[Len(calls) - 2].returned.is_valid
    /\ calls[Len(calls) - 2].sql = SqlNam
    /\ calls[Len(calls) - 1].call = "repair"
    /\ Last(calls).call = "validate"
    /\ Last(calls).sql = SqlName
    /\ generated_sql = SqlName
    /\ validation_result = Stored(Last(calls).returned)
    /\ validation_result.is_valid

\* ------------------------------------------------------------------------
\* Auto-Repair, pass by pass
\* ------------------------------------------------------------------------

\* the table a qualifier of sql refers to: the table an alias stands for,
\* the qualifier itself when it is no alias
Resolved(sql, qualifier) ==
    IF \E p \in AliasMap(sql) : p[2] = qualifier
    THEN (CHOOSE p \in AliasMap(sql) : p[2] = qualifier)[1]
    ELSE qualifier

\* auto_fix_columns has returned for the call in repair_call
AutoFixReturned == "once" \in DOMAIN repair_result

\* the qualified references of the call whose column is absent from the
\* table they refer to, by position in the text
AbsentQualified ==
    {i \in DOMAIN repair_call.sql :
        /\ IsQualified(repair_call.sql[i])
        /\ Resolved(repair_call.sql, Lower(QualTable(repair_call.sql[i])))
               \in DOMAIN repair_call.schema
        /\ Lower(QualColumn(repair_call.sql[i])) \notin
               SeqToSet(repair_call.schema[
                   Resolved(repair_call.sql, Lower(QualTable(repair_call.sql[i])))])}

\* C31: every qualified reference, table.column or alias.column, whose column
\* is absent from the (alias-resolved) table is replaced by the closest
\* column of that same table when one clears the 0.6 cutoff, and is left as
\* it was when none does.
C31_QualifiedReferenceRepaired ==
    AutoFixReturned =>
        \A i \in AbsentQualified :
            \E best \in {get_close_match(
                            Lower(QualColumn(repair_call.sql[i])),
                            repair_call.schema[
                                Resolved(repair_call.sql, Lower(QualTable(repair_call.sql[i])))],
                            QualifiedCutoff)} :
                repair_result.once[i] =
                    IF best # "" THEN Qualify(QualTable(repair_call.sql[i]), best)
                    ELSE repair_call.sql[i]

\* the bare tokens of the call the second pass takes for misspelt columns:
\* no keyword, no table, no column, and with a close match among the columns
\* of all tables; by position in the text
UnknownBare ==
    {i \in DOMAIN repair_call.sql :
        /\ IsWord(repair_call.sql[i])
        /\ Lower(repair_call.sql[i]) \notin sql_keywords
        /\ Lower(repair_call.sql[i]) \notin DOMAIN repair_call.schema
        /\ Lower(repair_call.sql[i]) \notin SeqToSet(AllColumns(repair_call.schema))
        /\ get_close_match(Lower(repair_call.sql[i]),
                           AllColumns(repair_call.schema), BareCutoff) # ""}

\* the position of the first occurrence of a word in the text
FirstOccurrence(sql, word) ==
    CHOOSE i \in DOMAIN sql :
        /\ word \in SeqToSet(WordsIn(sql[i]))
        /\ \A j \in 1..(i - 1) : word \notin SeqToSet(WordsIn(sql[j]))

\* C32: a bare token that is no known column, table or keyword and has a
\* close match (cutoff 0.7) among all columns is replaced at its first
\* occurrence only; its later occurrences are left as they were.
C32_OnlyFirstOccurrenceReplaced ==
    AutoFixReturned =>
        \A i \in UnknownBare :
            repair_result.once[i] =
                IF i = FirstOccurrence(repair_call.sql, Lower(repair_call.sql[i]))
                THEN get_close_match(Lower(repair_call.sql[i]),
                                     AllColumns(repair_call.schema), BareCutoff)
                ELSE repair_call.sql[i]

\* ------------------------------------------------------------------------
\* ExecutorAgent.metrics
\* ------------------------------------------------------------------------

RECURSIVE SumOfCounts(_)
SumOfCounts(error_counts) ==
    IF DOMAIN error_counts = {} THEN 0
    ELSE LET c == CHOOSE x \in DOMAIN error_counts : TRUE
         IN  error_counts[c]
             + SumOfCounts([x \in DOMAIN error_counts \ {c} |-> error_counts[x]])

\* the counters of the metrics agree with each other
CountsAgree ==
    /\ executor_metrics.total_queries
           = executor_metrics.successful_queries + executor_metrics.failed_queries
    /\ SumOfCounts(executor_metrics.error_counts) = executor_metrics.failed_queries

\* total_queries counts the calls: one more with every call that returns,
\* and no change otherwise
CountsTheCalls ==
    /\ (executor_result = EmptyDict /\ executor_result' # EmptyDict)
           => executor_metrics'.total_queries = executor_metrics.total_queries + 1
    /\ ~(executor_result = EmptyDict /\ executor_result' # EmptyDict)
           => executor_metrics' = executor_metrics

\* min <= avg <= max in the order of the floats
LatencyOrdered ==
    /\ FloatRank(executor_metrics.min_execution_time_ms)
           <= FloatRank(executor_metrics.avg_execution_time_ms)
    /\ FloatRank(executor_metrics.avg_execution_time_ms)
           <= FloatRank(executor_metrics.max_execution_time_ms)

UnchangedRepairFailed ==
    \E e \in {CallsOf("execute")} :
        /\ Len(e) >= 2
        /\ e[1].attempt = 1 /\ e[2].attempt = 2
        /\ ~e[1].returned.success /\ e[1].returned.error_type \in RETRYABLE_ERRORS
        /\ ~e[2].returned.success
        /\ \E i \in DOMAIN calls : /\ calls[i].call = "auto_fix_columns"
                                   /\ calls[i].attempt = 2
                                   /\ calls[i].returned = e[2].sql
        /\ normalize_sql(e[1].sql) = normalize_sql(e[2].sql)

\* C34: when attempt 1's SQL passed validation and failed at execution with
\* a retryable error, and attempt 2's Auto-Repair text normalizes to the
\* same text and fails at execution again, the run ends as a failure at
\* attempt 2 (whatever the second error, so with a retryable one and
\* attempts left: by the retry guard); no third attempt is made and
\* generate_with_correction, the one receiver of a correction prompt, is
\* never called.
C34_UnchangedRepairEndsRun ==
    UnchangedRepairFailed =>
        /\ pc \in {"END", "returned"}
        /\ attempt_number = 2
        /\ ~final_success
        /\ Len(previous_sqls) = 2
        /\ Len(CallsOf("execute")) = 2
        /\ \A i \in DOMAIN calls : /\ calls[i].call # "generate_with_correction"
                                   /\ calls[i].attempt <= 2

\* the case with three attempts allowed and a second failure that could be
\* retried: the run has ended at attempt 2 of 3
C34_Witness ==
    /\ UnchangedRepairFailed
    /\ max_attempts = 3
    /\ attempt_number = 2
    /\ execution_result.error_type \in RETRYABLE_ERRORS
    /\ pc = "returned"
    /\ ~result.success
    /\ result.attempts = 2

\* ------------------------------------------------------------------------
\* Texts executed more than once
\* ------------------------------------------------------------------------

C36_ExecutionResultOfFinalSql ==
    (pc = "returned" /\ result.execution_result # EmptyDict) =>
        \E e \in {CallsOf("execute")} :
            /\ e # << >>
            /\ Last(e).attempt = result.attempts
            /\ Last(e).sql = result.final_sql
            /\ Last(e).returned.success = result.execution_result.success
            /\ Last(e).returned.error_message = result.execution_result.error_message

\* ------------------------------------------------------------------------
\* The text of the state and the log of texts
\* ------------------------------------------------------------------------

\* C37: at the end of every Validate step the current generated_sql is the
\* last entry of the previous-SQL log.
C37_ValidatedTextIsLastLogged ==
    [][pc = "critic" => generated_sql' = Last(previous_sqls')]_vars

\* ------------------------------------------------------------------------
\* The trigger of the repair inside the Validate step
\* ------------------------------------------------------------------------

\* an issue of the schema layer about a table or a column that is not in
\* the schema
ReportsMissingIdentifier(issue) == issue # << >> /\ issue[1] \in {"Table '", "Column '"}

\* the validations that open a Validate step, by position in the history
FirstValidations ==
    {i \in DOMAIN calls : /\ calls[i].call = "validate"
                          /\ (i = 1 \/ calls[i - 1].call # "repair")}

\* C38: whenever the Validator's schema layer reports a table or column
\* that is absent from the schema (and so finds the text invalid), the
\* Validate step's Auto-Repair is triggered for that SQL: the issue texts of
\* the Validator hold "does not exist".
C38_MissingIdentifierTriggersRepair ==
    \A i \in FirstValidations :
        (/\ ~calls[i].returned.is_valid
         /\ \E k \in DOMAIN calls[i].returned.issues :
                ReportsMissingIdentifier(calls[i].returned.issues[k]))
            => /\ \E k \in DOMAIN calls[i].returned.issues :
                      /\ ReportsMissingIdentifier(calls[i].returned.issues[k])
                      /\ MentionsDoesNotExist(calls[i].returned.issues[k])
               /\ i < Len(calls)
               /\ calls[i + 1].call = "repair"
               /\ calls[i + 1].sql = calls[i].sql

\* ------------------------------------------------------------------------
\* Validity at the default threshold
\* ------------------------------------------------------------------------

\* C39: at the default threshold 0.7 validate returns is_valid = true if
\* and only if the syntax layer passes, the schema and the safety layer have
\* no issue and the semantic layer has at most one issue.
C39_ValidAtDefaultThreshold ==
    (Validated /\ critic_call.threshold = DefaultThreshold) =>
        (critic_result.is_valid <=>
            /\ _validate_syntax(critic_call.generated_sql) = << >>
            /\ _validate_schema(critic_call.generated_sql, critic_call.filtered_schema) = << >>
            /\ _validate_safety(critic_call.generated_sql) = << >>
            /\ Len(_validate_semantics(critic_call.generated_sql)) <= 1)

\* a text whose one issue is a semantic one was validated at the default
\* threshold and is valid with confidence 0.8
C39_Witness ==
    /\ Validated
    /\ critic_call.threshold = DefaultThreshold
    /\ Len(_validate_semantics(critic_call.generated_sql)) = 1
    /\ Len(critic_result.issues) = 1
    /\ critic_result.confidence = 8
    /\ critic_result.is_valid

\* ------------------------------------------------------------------------
\* The feedback for an unclassified failure
\* ------------------------------------------------------------------------

\* C40: for an execution failure classified as unknown, the feedback text
\* of the ExecutionResult holds the provider's raw error message.
C40_UnknownFeedbackHoldsMessage ==
    (ExecuteReturned /\ ~executor_result.success /\ executor_result.error_type = "unknown") =>
        \E i \in DOMAIN executor_result.error_feedback :
            executor_result.error_feedback[i] = executor_call.outcome

====
